---------------------------- MODULE Spec2Model ----------------------------
(***************************************************************************)
(* Legal-analysis scoreboard engine and evaluation framework.              *)
(*                                                                         *)
(* Numbers.  A JavaScript number that holds a score is a record            *)
(*   [kind |-> "finite" | "NaN" | "Infinity" | "-Infinity", val |-> Int]   *)
(* whose val is the score in thousandths (7.5 is 7500), one decimal more    *)
(* than the engine rounds to; val is 0 when the number is not finite.      *)
(* Weights, confidences and thresholds are integers in hundredths (0.15 is *)
(* 15).                                                                    *)
(* A quotient the code does not round (percent change, trend ratio) is a   *)
(* reduced fraction [kind, num, den].                                      *)
(*                                                                         *)
(* Arithmetic is exact, and the code's is in IEEE doubles.  On scores of   *)
(* two decimals the two can differ only where the exact value sits on a    *)
(* boundary the code then decides: a mean at a half hundredth under        *)
(* Math.round, a trend ratio of exactly 0.05 or -0.05 under > and <.  The  *)
(* functions that decide such a boundary take the sign of the rounding     *)
(* error of the computed double, err in RoundingErrors, and every          *)
(* application draws it: below, on, or above the exact value.              *)
(*                                                                         *)
(* Objects with a fixed field list (SummarizationScores,                   *)
(* ClassificationScores, the oracle's raw score objects) are sequences in  *)
(* the order the fields are written, which is the order Object.values      *)
(* walks them.                                                             *)
(***************************************************************************)
EXTENDS Integers, Sequences, FiniteSets, TLC

VARIABLES
    evaluationHistory,  \* LegalAnalysisEvaluationFramework.evaluationHistory
    performanceHistory, \* AIScoreboardEvaluator.performanceHistory
    call,               \* per caller: the evaluation request in progress
    started,            \* number of runComprehensiveEvaluation calls issued so far
    probe               \* last direct application of an engine function

vars == <<evaluationHistory, performanceHistory, call, started, probe>>

----------------------------------------------------------------------------
(* Bounds *)

\* runComprehensiveEvaluation calls issued in one behaviour of Spec
MaxEvaluations == 3
\* entries of a history drawn for the trend functions in SpecTrend
MaxHistory == 3
\* length of each metric list handed to the aggregator in SpecProbe
MaxMetrics == 2
\* the most documents handed to one batchEvaluation call
MaxBatch == 2

----------------------------------------------------------------------------
(* JavaScript numbers *)

Finite(v) == [kind |-> "finite", val |-> v]
NaN == [kind |-> "NaN", val |-> 0]
PosInfinity == [kind |-> "Infinity", val |-> 0]
NegInfinity == [kind |-> "-Infinity", val |-> 0]

IsFinite(x) == x.kind = "finite"

Abs(n) == IF n < 0 THEN -n ELSE n

RECURSIVE Gcd(_, _)
Gcd(a, b) == IF b = 0 THEN a ELSE Gcd(b, a % b)

\* the fraction n/d, d # 0, in lowest terms with a positive denominator
Fraction(n, d) ==
    LET g == Gcd(Abs(n), Abs(d))
        s == IF d < 0 THEN -1 ELSE 1
    IN  [kind |-> "finite", num |-> s * (n \div g), den |-> s * (d \div g)]

FracNaN == [kind |-> "NaN", num |-> 0, den |-> 1]
FracPosInfinity == [kind |-> "Infinity", num |-> 0, den |-> 1]
FracNegInfinity == [kind |-> "-Infinity", num |-> 0, den |-> 1]

\* IEEE division n/d of two finite numbers given as integers in the same unit
JsDivide(n, d) ==
    IF d # 0 THEN Fraction(n, d)
    ELSE IF n > 0 THEN FracPosInfinity
    ELSE IF n < 0 THEN FracNegInfinity
    ELSE FracNaN

\* sign of (computed double - exact value)
RoundingErrors == {-1, 0, 1}

\* the rounding errors that can tell: all of them where the exact value is on
\* the boundary, and elsewhere 0 stands for the three
ErrorsAt(boundary) == IF boundary THEN RoundingErrors ELSE {0}

\* n/d, d > 0, is a whole number and a half
AtHalf(n, d) == (2 * n + d) % (2 * d) = 0

\* x > n/d and x < n/d, d > 0, for the double computed for the fraction x
\* with rounding error err; every comparison with NaN is false
FracGreater(x, n, d, err) ==
    CASE x.kind = "finite"    -> \/ x.num * d > n * x.den
                                 \/ x.num * d = n * x.den /\ err > 0
      [] x.kind = "Infinity"  -> TRUE
      [] OTHER                -> FALSE

FracLess(x, n, d, err) ==
    CASE x.kind = "finite"    -> \/ x.num * d < n * x.den
                                 \/ x.num * d = n * x.den /\ err < 0
      [] x.kind = "-Infinity" -> TRUE
      [] OTHER                -> FALSE

\* Math.round(q) for the quotient q = n/d, d > 0: the nearest whole number, a
\* half going up unless the double computed for q fell below it.  With q in
\* hundredths this is 100 times Math.round(q * 100) / 100.
RoundToHundredths(n, d, err) ==
    IF (2 * n + d) % (2 * d) = 0 /\ err < 0
    THEN (2 * n + d) \div (2 * d) - 1
    ELSE (2 * n + d) \div (2 * d)

----------------------------------------------------------------------------
(* scoreboard-types.ts *)

ScoreLevel == {"excellent", "good", "satisfactory", "needs_improvement", "poor"}

SummarizationFields ==
    << [name |-> "factualAccuracy",       category |-> "accuracy",           weight |-> 20],
       [name |-> "completeness",          category |-> "completeness",       weight |-> 15],
       [name |-> "clarity",               category |-> "clarity",            weight |-> 10],
       [name |-> "legalReasoning",        category |-> "legal_reasoning",    weight |-> 20],
       [name |-> "keyFactsExtraction",    category |-> "factual_extraction", weight |-> 15],
       [name |-> "holdingIdentification", category |-> "legal_reasoning",    weight |-> 10],
       [name |-> "precedentRelevance",    category |-> "citation_quality",   weight |-> 5],
       [name |-> "lengthAppropriate",     category |-> "relevance",          weight |-> 5] >>

ClassificationFields ==
    << [name |-> "primaryAreaAccuracy",    category |-> "classification_precision", weight |-> 30],
       [name |-> "confidenceReliability",  category |-> "accuracy",                 weight |-> 20],
       [name |-> "secondaryAreaRelevance", category |-> "relevance",                weight |-> 15],
       [name |-> "subcategoryPrecision",   category |-> "classification_precision", weight |-> 15],
       [name |-> "reasoningQuality",       category |-> "legal_reasoning",          weight |-> 15],
       [name |-> "legalAreaCoverage",      category |-> "completeness",             weight |-> 5] >>

----------------------------------------------------------------------------
(* The oracle's raw criterion judgments (parsed JSON) *)

\* rawScore.feedback: not there, null, or a text (which may be empty)
NoFeedback == [t |-> "undefined", v |-> ""]
NullFeedback == [t |-> "null", v |-> ""]
FeedbackText(text) == [t |-> "string", v |-> text]

\* rawScores.<criterion>: absent, or an object whose score field is a JSON
\* number (thousandths), null, a non-numeric string, or not there at all;
\* the object is without a feedback field unless one is put in
AbsentJudgment == [present |-> FALSE, t |-> "undefined", v |-> 0, feedback |-> NoFeedback]
Judgment(t, v) == [present |-> TRUE, t |-> t, v |-> v, feedback |-> NoFeedback]
WithFeedback(rawScore, feedback) == [rawScore EXCEPT !.feedback = feedback]
NumberJudgment(v) == Judgment("number", v)
MissingScore == Judgment("undefined", 0)
NullScore == Judgment("null", 0)
TextScore == Judgment("string", 0)

\* ToNumber, as Math.min applies it to rawScore.score
ToNumber(rawScore) ==
    CASE rawScore.t = "number"    -> Finite(rawScore.v)
      [] rawScore.t = "null"      -> Finite(0)
      [] rawScore.t = "undefined" -> NaN
      [] rawScore.t = "string"    -> NaN

MathMin(n, x) ==
    CASE x.kind = "NaN"       -> NaN
      [] x.kind = "Infinity"  -> Finite(n)
      [] x.kind = "-Infinity" -> x
      [] OTHER                -> IF x.val < n THEN x ELSE Finite(n)

MathMax(n, x) ==
    CASE x.kind = "NaN"       -> NaN
      [] x.kind = "Infinity"  -> x
      [] x.kind = "-Infinity" -> Finite(n)
      [] OTHER                -> IF x.val > n THEN x ELSE Finite(n)

----------------------------------------------------------------------------
(* AIScoreboardEvaluator *)

\* getScoreLevel with every threshold compared by > instead of >=
getScoreLevelExclusive(score) ==
    LET gt(n) == \/ score.kind = "Infinity"
                 \/ score.kind = "finite" /\ score.val > n
    IN  IF gt(9000) THEN "excellent"
        ELSE IF gt(7500) THEN "good"
        ELSE IF gt(6000) THEN "satisfactory"
        ELSE IF gt(4000) THEN "needs_improvement"
        ELSE "poor"

getScoreLevel(score) ==
    LET ge(n) == \/ score.kind = "Infinity"
                 \/ score.kind = "finite" /\ score.val >= n
    IN  IF ge(9000) THEN "excellent"
        ELSE IF ge(7500) THEN "good"
        ELSE IF ge(6000) THEN "satisfactory"
        ELSE IF ge(4000) THEN "needs_improvement"
        ELSE "poor"

\* rawScore.feedback || '': a text that is not empty is kept; undefined, null
\* and the empty text are falsy and give ''
Feedback(rawScore) ==
    IF rawScore.feedback.t = "string" /\ rawScore.feedback.v # ""
    THEN rawScore.feedback.v
    ELSE ""

\* reading rawScore.score of an absent judgment throws a TypeError
createMetricScoreThrows(rawScore) == ~rawScore.present

\* createMetricScore without the Math.min(10, .) half of the clamp
createMetricScoreNoUpperClamp(category, rawScore, weight) ==
    LET score == MathMax(0, ToNumber(rawScore))
    IN  [category |-> category,
         score    |-> score,
         level    |-> getScoreLevel(score),
         weight   |-> weight,
         feedback |-> Feedback(rawScore)]

createMetricScore(category, rawScore, weight) ==
    LET score == MathMax(0, MathMin(10000, ToNumber(rawScore)))
    IN  [category |-> category,
         score    |-> score,
         level    |-> getScoreLevel(score),
         weight   |-> weight,
         feedback |-> Feedback(rawScore)]

\* the object literal evaluateSummarization / evaluateClassification returns
MetricScores(fields, rawScores) ==
    [i \in 1..Len(fields) |->
        createMetricScore(fields[i].category, rawScores[i], fields[i].weight)]

MetricScoresThrow(rawScores) ==
    \E i \in 1..Len(rawScores) : createMetricScoreThrows(rawScores[i])

\* allScores.reduce((sum, metric) => sum + metric.score * metric.weight, 0)
\* as [nan, sum]: nan once a NaN score has been added, sum in 1e-5 units
RECURSIVE WeightedSum(_)
WeightedSum(allScores) ==
    IF allScores = << >> THEN [nan |-> FALSE, sum |-> 0]
    ELSE LET rest   == WeightedSum(SubSeq(allScores, 1, Len(allScores) - 1))
             metric == allScores[Len(allScores)]
         IN  IF rest.nan \/ metric.score.kind # "finite"
             THEN [nan |-> TRUE, sum |-> 0]
             ELSE [nan |-> FALSE, sum |-> rest.sum + metric.score.val * metric.weight]

\* allScores.reduce((sum, metric) => sum + metric.weight, 0)
RECURSIVE TotalWeight(_)
TotalWeight(allScores) ==
    IF allScores = << >> THEN 0
    ELSE TotalWeight(Tail(allScores)) + Head(allScores).weight

\* calculateOverallScore that averages the scores without their weights
calculateOverallScoreUnweighted(summarizationScores, classificationScores, err) ==
    LET allScores == summarizationScores \o classificationScores
        unit      == [i \in 1..Len(allScores) |-> [allScores[i] EXCEPT !.weight = 1]]
        sum       == WeightedSum(unit)
    IN  IF sum.nan \/ Len(allScores) = 0 THEN NaN
        ELSE Finite(10 * RoundToHundredths(sum.sum, 10 * Len(allScores), err))

\* calculateOverallScore cutting the mean to two decimals (Math.floor) instead
\* of rounding it
calculateOverallScoreTruncated(summarizationScores, classificationScores, err) ==
    LET allScores   == summarizationScores \o classificationScores
        weightedSum == WeightedSum(allScores)
        totalWeight == TotalWeight(allScores)
    IN  IF weightedSum.nan THEN NaN
        ELSE IF totalWeight = 0
             THEN (IF weightedSum.sum > 0 THEN PosInfinity
                   ELSE IF weightedSum.sum < 0 THEN NegInfinity
                   ELSE NaN)
        ELSE IF totalWeight < 0
             THEN Finite(10 * ((-weightedSum.sum) \div (-10 * totalWeight)))
        ELSE Finite(10 * (weightedSum.sum \div (10 * totalWeight)))

calculateOverallScore(summarizationScores, classificationScores, err) ==
    LET allScores   == summarizationScores \o classificationScores
        weightedSum == WeightedSum(allScores)
        totalWeight == TotalWeight(allScores)
    IN  IF weightedSum.nan THEN NaN
        ELSE IF totalWeight = 0
             THEN (IF weightedSum.sum > 0 THEN PosInfinity
                   ELSE IF weightedSum.sum < 0 THEN NegInfinity
                   ELSE NaN)
        ELSE IF totalWeight < 0
             THEN Finite(10 * RoundToHundredths(-weightedSum.sum, -10 * totalWeight, err))
        ELSE Finite(10 * RoundToHundredths(weightedSum.sum, 10 * totalWeight, err))

\* the rounding errors to draw for Math.round in calculateOverallScore
OverallRoundingErrors(summarizationScores, classificationScores) ==
    LET allScores   == summarizationScores \o classificationScores
        weightedSum == WeightedSum(allScores)
        totalWeight == TotalWeight(allScores)
    IN  ErrorsAt(/\ ~weightedSum.nan
                 /\ totalWeight > 0
                 /\ AtHalf(weightedSum.sum, 10 * totalWeight))

CountLevel(allScores, level) ==
    Cardinality({i \in 1..Len(allScores) : allScores[i].level = level})

\* calculateAggregateMetrics reading the needs-improvement tally under a key
\* that is not the ScoreLevel value, so that the || 0 default always applies
calculateAggregateMetricsWrongKey(summarizationScores, classificationScores) ==
    LET allScores == summarizationScores \o classificationScores
    IN  [totalMetrics          |-> Len(allScores),
         excellentCount        |-> CountLevel(allScores, "excellent"),
         goodCount             |-> CountLevel(allScores, "good"),
         satisfactoryCount     |-> CountLevel(allScores, "satisfactory"),
         needsImprovementCount |-> CountLevel(allScores, "needsImprovement"),
         poorCount             |-> CountLevel(allScores, "poor")]

calculateAggregateMetrics(summarizationScores, classificationScores) ==
    LET allScores == summarizationScores \o classificationScores
    IN  [totalMetrics          |-> Len(allScores),
         excellentCount        |-> CountLevel(allScores, "excellent"),
         goodCount             |-> CountLevel(allScores, "good"),
         satisfactoryCount     |-> CountLevel(allScores, "satisfactory"),
         needsImprovementCount |-> CountLevel(allScores, "needs_improvement"),
         poorCount             |-> CountLevel(allScores, "poor")]

\* the metrics of allScores whose level is one of levels, in order
RECURSIVE FilterLevels(_, _)
FilterLevels(allScores, levels) ==
    IF allScores = << >> THEN << >>
    ELSE LET rest == FilterLevels(SubSeq(allScores, 1, Len(allScores) - 1), levels)
             last == allScores[Len(allScores)]
         IN  IF last.level \in levels THEN Append(rest, last) ELSE rest

\* `${s.category}: ${s.feedback}`, a string kept as its three parts
InsightEntry(s) == <<s.category, ": ", s.feedback>>

\* `Improve ${w.split(':')[0].toLowerCase()}`: the categories hold no colon
\* and no capital letter
ImproveEntry(w) == <<"Improve ", w[1]>>

\* generateAnalysisInsights counting the satisfactory metrics as strengths
generateAnalysisInsightsLenient(summarizationScores, classificationScores) ==
    LET allScores  == summarizationScores \o classificationScores
        strong     == FilterLevels(allScores, {"excellent", "good", "satisfactory"})
        weak       == FilterLevels(allScores, {"needs_improvement", "poor"})
        strengths  == [i \in 1..Len(strong) |-> InsightEntry(strong[i])]
        weaknesses == [i \in 1..Len(weak) |-> InsightEntry(weak[i])]
    IN  [strengths       |-> strengths,
         weaknesses      |-> weaknesses,
         recommendations |->
             [i \in 1..Len(weaknesses) |-> ImproveEntry(weaknesses[i])]
             \o << <<"Consider additional legal precedent research">>,
                   <<"Review factual accuracy against source document">> >>]

generateAnalysisInsights(summarizationScores, classificationScores) ==
    LET allScores  == summarizationScores \o classificationScores
        strong     == FilterLevels(allScores, {"excellent", "good"})
        weak       == FilterLevels(allScores, {"needs_improvement", "poor"})
        strengths  == [i \in 1..Len(strong) |-> InsightEntry(strong[i])]
        weaknesses == [i \in 1..Len(weak) |-> InsightEntry(weak[i])]
    IN  [strengths       |-> strengths,
         weaknesses      |-> weaknesses,
         recommendations |->
             [i \in 1..Len(weaknesses) |-> ImproveEntry(weaknesses[i])]
             \o << <<"Consider additional legal precedent research">>,
                   <<"Review factual accuracy against source document">> >>]

\* const industryAverage = 7.2
industryAverage == 7200

\* Math.min(99, Math.max(1, Math.round((overallScore / 10) * 100))), a whole
\* number kept in val; err is the rounding error of (overallScore / 10) * 100
industryPercentile(overallScore, err) ==
    CASE overallScore.kind = "NaN"       -> NaN
      [] overallScore.kind = "Infinity"  -> Finite(99)
      [] overallScore.kind = "-Infinity" -> Finite(1)
      [] OTHER ->
            LET rounded == RoundToHundredths(overallScore.val, 100, err)
            IN  Finite(IF rounded < 1 THEN 1 ELSE IF rounded > 99 THEN 99 ELSE rounded)

\* the rounding errors to draw for Math.round in industryPercentile
PercentileRoundingErrors(overallScore) ==
    ErrorsAt(overallScore.kind = "finite" /\ AtHalf(overallScore.val, 100))

\* Math.round(aboveAverage * 100) / 100, a percentage kept in hundredths
aboveAverage(overallScore, average) ==
    IF overallScore.kind # "finite" THEN overallScore
    ELSE Finite(RoundToHundredths((overallScore.val - average) * 10000, average, 0))

\* overallScore > industryAverage ? ... : ...
similarCasesComparison(overallScore) ==
    IF \/ overallScore.kind = "Infinity"
       \/ overallScore.kind = "finite" /\ overallScore.val > industryAverage
    THEN "Above average performance"
    ELSE "Below average performance"

\* generateBenchmarkComparison without the Math.min / Math.max clamp
generateBenchmarkComparisonUnclamped(overallScore, err) ==
    [aboveAverage           |-> aboveAverage(overallScore, industryAverage),
     industryPercentile     |->
         IF overallScore.kind # "finite" THEN overallScore
         ELSE Finite(RoundToHundredths(overallScore.val, 100, err)),
     similarCasesComparison |-> similarCasesComparison(overallScore)]

\* generateBenchmarkComparison measuring aboveAverage against 7.0
generateBenchmarkComparisonOtherAverage(overallScore, err) ==
    [aboveAverage           |-> aboveAverage(overallScore, 7000),
     industryPercentile     |-> industryPercentile(overallScore, err),
     similarCasesComparison |-> similarCasesComparison(overallScore)]

\* generateBenchmarkComparison labelling with >= instead of >
generateBenchmarkComparisonInclusive(overallScore, err) ==
    [aboveAverage           |-> aboveAverage(overallScore, industryAverage),
     industryPercentile     |-> industryPercentile(overallScore, err),
     similarCasesComparison |->
         IF \/ overallScore.kind = "Infinity"
            \/ overallScore.kind = "finite" /\ overallScore.val >= industryAverage
         THEN "Above average performance"
         ELSE "Below average performance"]

generateBenchmarkComparison(overallScore, err) ==
    [aboveAverage           |-> aboveAverage(overallScore, industryAverage),
     industryPercentile     |-> industryPercentile(overallScore, err),
     similarCasesComparison |-> similarCasesComparison(overallScore)]

\* a JavaScript value that is a number (a confidence or a threshold, in
\* hundredths) or undefined
Number(v) == [t |-> "number", v |-> v]
Undefined == [t |-> "undefined", v |-> 0]

\* a < b: false unless both are numbers
JsLess(a, b) == a.t = "number" /\ b.t = "number" /\ a.v < b.v

\* input.config: not given, or a ScoringConfig object as the caller wrote it
\* (the evaluator never parses it, so a field left out stays undefined)
NoConfig == [given |-> FALSE, minimumConfidenceThreshold |-> Undefined]
Config(threshold) == [given |-> TRUE, minimumConfidenceThreshold |-> threshold]

\* const config = input.config || { ..., minimumConfidenceThreshold: 0.6, ... }
DefaultConfig == Config(Number(60))
EffectiveConfig(config) == IF config.given THEN config ELSE DefaultConfig

\* identifyQualityFlags comparing with <= instead of <
identifyQualityFlagsInclusive(confidence, config) ==
    [potentialErrors  |-> << >>,
     inconsistencies  |-> << >>,
     missingElements  |-> << >>,
     confidenceIssues |->
         IF /\ confidence.t = "number"
            /\ config.minimumConfidenceThreshold.t = "number"
            /\ confidence.v <= config.minimumConfidenceThreshold.v
         THEN <<"Low classification confidence">>
         ELSE << >>]

\* confidence is results.classification.confidence
identifyQualityFlags(confidence, config) ==
    [potentialErrors  |-> << >>,
     inconsistencies  |-> << >>,
     missingElements  |-> << >>,
     confidenceIssues |->
         IF JsLess(confidence, config.minimumConfidenceThreshold)
         THEN <<"Low classification confidence">>
         ELSE << >>]

\* the empty method body: the evaluator's history is left as it is
updatePerformanceHistory(history, scoreboard) == history

\* Scoreboard grading the weighted mean as cut to two decimals, not as rounded
ScoreboardGradedUnrounded(documentId, confidence, inputConfig, summarizationScores, classificationScores, roundErr, percentileErr) ==
    LET config       == EffectiveConfig(inputConfig)
        overallScore == calculateOverallScore(summarizationScores, classificationScores,
                                              roundErr)
        insights     == generateAnalysisInsights(summarizationScores,
                                                 classificationScores)
    IN  [documentId          |-> documentId,
         overallScore        |-> overallScore,
         overallGrade        |->
             getScoreLevel(calculateOverallScoreTruncated(summarizationScores,
                                                          classificationScores,
                                                          roundErr)),
         summarizationScores |-> summarizationScores,
         classificationScores |-> classificationScores,
         aggregateMetrics    |-> calculateAggregateMetrics(summarizationScores,
                                                           classificationScores),
         strengths           |-> insights.strengths,
         weaknesses          |-> insights.weaknesses,
         recommendations     |-> insights.recommendations,
         benchmarkComparison |-> generateBenchmarkComparison(overallScore, percentileErr),
         qualityFlags        |-> identifyQualityFlags(confidence, config)]

\* the LegalAnalysisScoreboard evaluateAnalysis assembles; documentId, a fresh
\* identifier in the code, is the number of the framework request the
\* scoreboard is built for, and 0 when evaluateAnalysis is called on its own
Scoreboard(documentId, confidence, inputConfig, summarizationScores, classificationScores, roundErr, percentileErr) ==
    LET config       == EffectiveConfig(inputConfig)
        overallScore == calculateOverallScore(summarizationScores, classificationScores,
                                              roundErr)
        insights     == generateAnalysisInsights(summarizationScores,
                                                 classificationScores)
    IN  [documentId          |-> documentId,
         overallScore        |-> overallScore,
         overallGrade        |-> getScoreLevel(overallScore),
         summarizationScores |-> summarizationScores,
         classificationScores |-> classificationScores,
         aggregateMetrics    |-> calculateAggregateMetrics(summarizationScores,
                                                           classificationScores),
         strengths           |-> insights.strengths,
         weaknesses          |-> insights.weaknesses,
         recommendations     |-> insights.recommendations,
         benchmarkComparison |-> generateBenchmarkComparison(overallScore, percentileErr),
         qualityFlags        |-> identifyQualityFlags(confidence, config)]

----------------------------------------------------------------------------
(* LegalAnalysisEvaluationFramework *)

\* this.evaluationHistory[i].scoreboard.overallScore, kept apart so that the
\* trend functions read nothing else of a report
HistoryScore(history, i) == history[i].scoreboard.overallScore

calculateImprovementFromHistory(history, currentScore) ==
    IF Len(history) < 2 THEN Fraction(0, 1)
    ELSE LET previousScore == HistoryScore(history, Len(history) - 1)
         IN  IF ~IsFinite(currentScore) \/ ~IsFinite(previousScore) THEN FracNaN
             ELSE JsDivide((currentScore.val - previousScore.val) * 100,
                           previousScore.val)

\* determineTrendDirection with both bounds compared inclusively
determineTrendDirectionInclusive(history, err) ==
    IF Len(history) < 3 THEN "stable"
    ELSE LET first == HistoryScore(history, Len(history) - 2)
             last  == HistoryScore(history, Len(history))
             trend == IF ~IsFinite(first) \/ ~IsFinite(last) THEN FracNaN
                      ELSE JsDivide(last.val - first.val, first.val)
         IN  IF ~FracLess(trend, 5, 100, err) /\ trend.kind # "NaN" THEN "improving"
             ELSE IF ~FracGreater(trend, -5, 100, err) /\ trend.kind # "NaN" THEN "declining"
             ELSE "stable"

determineTrendDirection(history, err) ==
    IF Len(history) < 3 THEN "stable"
    ELSE LET first == HistoryScore(history, Len(history) - 2)
             last  == HistoryScore(history, Len(history))
             trend == IF ~IsFinite(first) \/ ~IsFinite(last) THEN FracNaN
                      ELSE JsDivide(last.val - first.val, first.val)
         IN  IF FracGreater(trend, 5, 100, err) THEN "improving"
             ELSE IF FracLess(trend, -5, 100, err) THEN "declining"
             ELSE "stable"

\* the rounding errors to draw for the trend ratio in determineTrendDirection
TrendRoundingErrors(history) ==
    ErrorsAt(/\ Len(history) >= 3
             /\ IsFinite(HistoryScore(history, Len(history) - 2))
             /\ IsFinite(HistoryScore(history, Len(history)))
             /\ LET first == HistoryScore(history, Len(history) - 2).val
                    last  == HistoryScore(history, Len(history)).val
                IN  Abs(100 * (last - first)) = 5 * Abs(first) /\ first # 0)

\* calculateSummarizationScore averaging the scores without their weights
calculateSummarizationScoreUnweighted(scores) ==
    LET unit        == [i \in 1..Len(scores) |-> [scores[i] EXCEPT !.weight = 1]]
        weightedSum == WeightedSum(unit)
    IN  IF weightedSum.nan THEN FracNaN
        ELSE JsDivide(weightedSum.sum, TotalWeight(unit))

\* weightedSum / totalWeight, not rounded: a fraction of thousandths
calculateSummarizationScore(scores) ==
    LET weightedSum == WeightedSum(scores)
    IN  IF weightedSum.nan THEN FracNaN
        ELSE JsDivide(weightedSum.sum, TotalWeight(scores))

calculateClassificationScore(scores) ==
    LET weightedSum == WeightedSum(scores)
    IN  IF weightedSum.nan THEN FracNaN
        ELSE JsDivide(weightedSum.sum, TotalWeight(scores))

\* Math.round(x * 100) / 100 of an unrounded group score
RoundGroupScore(x, err) ==
    CASE x.kind = "NaN"       -> NaN
      [] x.kind = "Infinity"  -> PosInfinity
      [] x.kind = "-Infinity" -> NegInfinity
      [] OTHER                -> Finite(10 * RoundToHundredths(x.num, 10 * x.den, err))

\* the rounding errors to draw for the two roundings of scoreBreakdown
NoBreakdownError == [summarization |-> 0, classification |-> 0]
BreakdownRoundingErrors(summarizationScores, classificationScores) ==
    LET summarizationScore  == calculateSummarizationScore(summarizationScores)
        classificationScore == calculateClassificationScore(classificationScores)
    IN  {[summarization |-> a, classification |-> b] :
            a \in ErrorsAt(/\ summarizationScore.kind = "finite"
                           /\ AtHalf(summarizationScore.num,
                                     10 * summarizationScore.den)),
            b \in ErrorsAt(/\ classificationScore.kind = "finite"
                           /\ AtHalf(classificationScore.num,
                                     10 * classificationScore.den))}

\* err is the rounding error of the trend ratio, breakdownErr those of the
\* two group scores
generatePerformanceInsights(history, scoreboard, err, breakdownErr) ==
    [scoreBreakdown        |->
         [summarization  |->
              RoundGroupScore(calculateSummarizationScore(scoreboard.summarizationScores),
                              breakdownErr.summarization),
          classification |->
              RoundGroupScore(calculateClassificationScore(scoreboard.classificationScores),
                              breakdownErr.classification),
          overall        |-> scoreboard.overallScore],
     strengthAreas         |-> scoreboard.strengths,
     improvementAreas      |-> scoreboard.weaknesses,
     overall               |-> scoreboard.overallScore,
     percentageImprovement |-> calculateImprovementFromHistory(history,
                                                               scoreboard.overallScore),
     trendDirection        |-> determineTrendDirection(history, err)]

\* the sum of the overall scores of the reports, as [nan, sum]
RECURSIVE OverallSum(_)
OverallSum(reports) ==
    IF reports = << >> THEN [nan |-> FALSE, sum |-> 0]
    ELSE LET rest  == OverallSum(SubSeq(reports, 1, Len(reports) - 1))
             score == reports[Len(reports)].scoreboard.overallScore
         IN  IF rest.nan \/ ~IsFinite(score) THEN [nan |-> TRUE, sum |-> 0]
             ELSE [nan |-> FALSE, sum |-> rest.sum + score.val]

\* the rounding errors to draw for Math.round(averageScore * 100)
AggregateRoundingErrors(reports) ==
    ErrorsAt(/\ Len(reports) > 0
             /\ ~OverallSum(reports).nan
             /\ AtHalf(OverallSum(reports).sum, 10 * Len(reports)))

\* the analysis batchEvaluation returns with the reports; a grade no report
\* has is no key of gradeDistribution, here a count of 0
generateAggregateAnalysis(reports, err) ==
    [totalDocuments    |-> Len(reports),
     averageScore      |->
         IF OverallSum(reports).nan \/ Len(reports) = 0 THEN NaN
         ELSE Finite(10 * RoundToHundredths(OverallSum(reports).sum,
                                            10 * Len(reports), err)),
     gradeDistribution |->
         [grade \in ScoreLevel |->
             Cardinality({i \in 1..Len(reports) :
                             reports[i].scoreboard.overallGrade = grade})],
     topPerformingAreas |->
         <<"Contract Law Classification", "Key Facts Extraction", "Legal Reasoning">>,
     commonWeaknesses  |->
         <<"Citation Quality", "Precedent Relevance", "Complex Case Analysis">>,
     recommendedSystemImprovements |->
         <<"Enhance legal precedent database",
           "Improve citation extraction algorithms",
           "Add specialized training for complex cases">>]

\* the EvaluationReport compiled once the recommendations have arrived
EvaluationReport(scoreboard, performanceInsights) ==
    [documentId          |-> scoreboard.documentId,
     scoreboard          |-> scoreboard,
     performanceInsights |-> performanceInsights]

----------------------------------------------------------------------------
(* LegalMCPServer: the arguments of a tool call and the schemas they are
   parsed with *)

\* a string value, told by its length, and a boolean value
String(length) == [t |-> "string", v |-> length]
Boolean == [t |-> "boolean", v |-> 1]

\* request.params.arguments.document: undefined, or an object with content
\* and the optional title (caseNumber, jurisdiction and date are parsed alike)
NoDocument == [given |-> FALSE, content |-> Undefined, title |-> Undefined]
Document(content, title) == [given |-> TRUE, content |-> content, title |-> title]

\* request.params.arguments.options: undefined, or an object; maxLength and
\* includeCitations are options of the summarization (the other three flags
\* are parsed like includeCitations), confidenceThreshold (hundredths) and
\* multiLabel of the classification (includeSubcategories likewise)
NoOptions ==
    [given |-> FALSE, maxLength |-> Undefined, includeCitations |-> Undefined,
     confidenceThreshold |-> Undefined, multiLabel |-> Undefined]
Options(maxLength, includeCitations, confidenceThreshold, multiLabel) ==
    [given |-> TRUE, maxLength |-> maxLength, includeCitations |-> includeCitations,
     confidenceThreshold |-> confidenceThreshold, multiLabel |-> multiLabel]

\* const { document, options = {} } = request.params.arguments
EmptyOptions == Options(Undefined, Undefined, Undefined, Undefined)
DefaultedOptions(options) == IF options.given THEN options ELSE EmptyOptions

NoArguments == [given |-> FALSE, document |-> NoDocument, options |-> NoOptions]
Arguments(document, options) ==
    [given |-> TRUE, document |-> document, options |-> options]

ToolRequest(name, arguments) == [name |-> name, arguments |-> arguments]
NoRequest == ToolRequest("none", NoArguments)

\* whether LegalDocumentSchema.parse(document) succeeds
LegalDocumentSchema(document) ==
    /\ document.given
    /\ document.content.t = "string" /\ document.content.v >= 1
    /\ document.title.t \in {"undefined", "string"}

\* whether SummarizationOptionsSchema.parse(options) succeeds; keys the schema
\* does not name are stripped
SummarizationOptionsSchema(options) ==
    /\ options.given
    /\ \/ options.maxLength.t = "undefined"
       \/ /\ options.maxLength.t = "number"
          /\ 50 <= options.maxLength.v /\ options.maxLength.v <= 2000
    /\ options.includeCitations.t \in {"undefined", "boolean"}

\* whether ClassificationOptionsSchema.parse(options) succeeds
ClassificationOptionsSchema(options) ==
    /\ options.given
    /\ \/ options.confidenceThreshold.t = "undefined"
       \/ /\ options.confidenceThreshold.t = "number"
          /\ 0 <= options.confidenceThreshold.v /\ options.confidenceThreshold.v <= 100
    /\ options.multiLabel.t \in {"undefined", "boolean"}

\* the cases of the handler's switch on request.params.name
ToolNames ==
    {"summarize_legal_document", "classify_legal_document",
     "analyze_legal_document_full"}

----------------------------------------------------------------------------
(* State *)

Callers == {"c1", "c2"}

Nothing == << >>

\* no request in progress
IdleCall ==
    [pc                  |-> "idle",
     direct              |-> FALSE,      \* evaluateAnalysis called on its own
     tool                |-> NoRequest,  \* the tool request being handled, if any
     batching            |-> FALSE,      \* inside batchEvaluation
     documents           |-> 0,          \* the number of documents of the batch
     first               |-> 0,          \* the request number of its first document
     individualReports   |-> << >>,
     aggregateAnalysis   |-> Nothing,
     request             |-> 0,          \* number of the framework request, from 1
     issued              |-> << >>,      \* the oracle calls issued so far, in order
     config              |-> NoConfig,   \* the config argument
     summary             |-> "none",     \* the two calls of analyzeDocumentFull
     classification      |-> "none",
     confidence          |-> Undefined,  \* analysisResults.classification.confidence
     rawSummarization    |-> Nothing,    \* rawScores of evaluateSummarization
     rawClassification   |-> Nothing,    \* rawScores of evaluateClassification
     summarizationScores |-> Nothing,
     scoreboard          |-> Nothing,
     performanceInsights |-> Nothing,
     error               |-> "none"]

NoProbe == [op |-> "none", applied |-> FALSE]

Init ==
    /\ evaluationHistory = << >>
    /\ performanceHistory = << >>
    /\ call = [c \in Callers |-> IdleCall]
    /\ started = 0
    /\ probe = NoProbe

Settled(c) == call[c].pc \in {"idle", "returned", "rejected"}

\* the stages at which an oracle call of caller c is in flight and awaited
AwaitsOracle(c) ==
    call[c].pc \in {"summarizeDocument", "classifyDocument",
                    "analyzeDocumentFull", "evaluateSummarization",
                    "evaluateClassification", "generateImprovementRecommendations"}

\* the errors an oracle call rejects with: the request failed (an axios
\* error); anything else thrown in generateCompletion, as the TypeError of
\* reading choices[0].message.content of an answer that has none; the
\* completion is not JSON
OracleErrors ==
    {"LLM API Error", "Unexpected error", "Failed to parse LLM response as JSON"}

----------------------------------------------------------------------------
(* Oracle answers and request arguments *)

Uniform(n, judgment) == [i \in 1..n |-> judgment]

\* every criterion judged alike
ProfileScores == {6000, 7000}
ProfileJudgments(n) == {Uniform(n, NumberJudgment(v)) : v \in ProfileScores}

\* the confidence the classification call answers with
ProfileConfidences == {Number(90)}

\* every criterion judged alike but at most one, which may be out of range,
\* malformed or absent; or every criterion judged alike with a score of three
\* decimals
BaseJudgments == {NumberJudgment(6000), NumberJudgment(9000)}
FineJudgments == {NumberJudgment(8333), NumberJudgment(8996)}
\* judgments with a feedback field, as the judgment prompt asks for: every
\* criterion praised alike, with a text, an empty text or null, or all but the
\* first, which is found wanting
Feedbacks == {FeedbackText("Sound"), FeedbackText(""), NullFeedback}
FeedbackJudgments(n) ==
    {Uniform(n, WithFeedback(NumberJudgment(9000), f)) : f \in Feedbacks}
    \cup {[Uniform(n, WithFeedback(NumberJudgment(9000), FeedbackText("Sound")))
              EXCEPT ![1] = WithFeedback(NumberJudgment(3000),
                                         FeedbackText("Unsupported"))]}
OddJudgments ==
    {NumberJudgment(-3000), NumberJudgment(0), NumberJudgment(4500),
     NumberJudgment(7500), NumberJudgment(15000),
     MissingScore, NullScore, TextScore, AbsentJudgment}
RichJudgments(n) ==
    {Uniform(n, b) : b \in BaseJudgments \cup FineJudgments}
    \cup FeedbackJudgments(n)
    \cup {[Uniform(n, b) EXCEPT ![i] = d] :
            b \in BaseJudgments, i \in 1..n, d \in OddJudgments}

\* the tool requests a client sends: the three tools and one the server does
\* not have; documents without content, with empty, textual and non-string
\* content; options absent, within, at and beyond the bounds, and mistyped
RequestNames == ToolNames \cup {"evaluate_legal_analysis"}
Documents ==
    {NoDocument,
     Document(Undefined, Undefined),
     Document(String(0), Undefined),
     Document(String(1200), Undefined),
     Document(String(1200), String(10)),
     Document(String(1200), Number(7)),
     Document(Number(42), Undefined)}
OptionChoices ==
    {NoOptions, EmptyOptions}
    \cup {Options(maxLength, Undefined, Undefined, Undefined) :
            maxLength \in {Number(49), Number(50), Number(500), Number(2000),
                           Number(2001), String(3)}}
    \cup {Options(Undefined, Undefined, confidenceThreshold, Undefined) :
            confidenceThreshold \in {Number(-1), Number(0), Number(70),
                                     Number(100), Number(101), String(3)}}
    \cup {Options(Number(300), Boolean, Number(50), Boolean),
          Options(Undefined, String(4), Undefined, Undefined),
          Options(Undefined, Undefined, Undefined, String(4))}
ToolRequests ==
    {ToolRequest(name, arguments) :
        name \in RequestNames,
        arguments \in {NoArguments}
                       \cup {Arguments(document, options) :
                                document \in Documents, options \in OptionChoices}}

\* the classification confidence and the config evaluateAnalysis is handed
BuilderInputs ==
    {[confidence |-> Number(50), config |-> Config(Number(60))],
     [confidence |-> Number(50), config |-> NoConfig],
     [confidence |-> Number(60), config |-> NoConfig],
     [confidence |-> Number(60), config |-> Config(Number(70))],
     [confidence |-> Number(70), config |-> Config(Number(70))],
     [confidence |-> Number(50), config |-> Config(Undefined)],
     [confidence |-> Undefined, config |-> NoConfig]}

----------------------------------------------------------------------------
(* Actions *)

\* runComprehensiveEvaluation is called: analyzeDocumentFull issues the
\* summarize and the classify call together (Promise.all)
runComprehensiveEvaluation(c, config) ==
    /\ Settled(c)
    /\ started < MaxEvaluations
    /\ started' = started + 1
    /\ call' = [call EXCEPT ![c] =
                  [IdleCall EXCEPT !.pc = "analyzeDocumentFull",
                                   !.request = started + 1,
                                   !.issued = <<"summarizeDocument", "classifyDocument">>,
                                   !.config = config,
                                   !.summary = "pending",
                                   !.classification = "pending"]]
    /\ UNCHANGED <<evaluationHistory, performanceHistory, probe>>

\* the call record when runComprehensiveEvaluation starts on the next document
\* of a batch that has these reports
BatchEvaluating(c, documents, first, config, individualReports) ==
    [IdleCall EXCEPT !.batching = TRUE,
                     !.documents = documents,
                     !.first = first,
                     !.individualReports = individualReports,
                     !.pc = "analyzeDocumentFull",
                     !.request = first + Len(individualReports),
                     !.issued = <<"summarizeDocument", "classifyDocument">>,
                     !.config = config,
                     !.summary = "pending",
                     !.classification = "pending"]

\* batchEvaluation is called with `documents` documents: the loop calls
\* runComprehensiveEvaluation on the first; the documents are numbered as
\* requests first, first + 1, ... in input order.  With no document the loop
\* body never runs: the aggregate analysis of no report is made and the batch
\* returns, with no oracle call issued
batchEvaluation(c, documents, config) ==
    /\ Settled(c)
    /\ documents >= 0
    /\ started + documents <= MaxEvaluations
    /\ started' = started + documents
    /\ call' = [call EXCEPT ![c] =
                  IF documents = 0
                  THEN [IdleCall EXCEPT !.batching = TRUE,
                                        !.first = started + 1,
                                        !.config = config,
                                        !.aggregateAnalysis =
                                            generateAggregateAnalysis(<< >>, 0),
                                        !.pc = "returned"]
                  ELSE BatchEvaluating(c, documents, started + 1, config, << >>)]
    /\ UNCHANGED <<evaluationHistory, performanceHistory, probe>>

\* evaluateAnalysis is called on its own, on an analysis the caller supplies;
\* evaluateSummarization issues its call
evaluateAnalysis(c, confidence, config) ==
    /\ Settled(c)
    /\ call' = [call EXCEPT ![c] =
                  [IdleCall EXCEPT !.pc = "evaluateSummarization",
                                   !.direct = TRUE,
                                   !.issued = <<"evaluateSummarization">>,
                                   !.confidence = confidence,
                                   !.config = config]]
    /\ UNCHANGED <<evaluationHistory, performanceHistory, started, probe>>

\* the call of a tool that has been issued, whatever the arguments
ToolIssued(c, request) ==
    CASE request.name = "summarize_legal_document" ->
             [IdleCall EXCEPT !.tool = request,
                              !.pc = "summarizeDocument",
                              !.issued = <<"summarizeDocument">>,
                              !.summary = "pending"]
      [] request.name = "classify_legal_document" ->
             [IdleCall EXCEPT !.tool = request,
                              !.pc = "classifyDocument",
                              !.issued = <<"classifyDocument">>,
                              !.classification = "pending"]
      [] request.name = "analyze_legal_document_full" ->
             [IdleCall EXCEPT !.tool = request,
                              !.pc = "analyzeDocumentFull",
                              !.issued = <<"summarizeDocument", "classifyDocument">>,
                              !.summary = "pending",
                              !.classification = "pending"]

\* the handler throwing before it has called the analyzer
ToolRejected(c, request, error) ==
    [IdleCall EXCEPT !.tool = request, !.pc = "rejected", !.error = error]

\* CallTool handing the arguments to the analyzer as they came, unparsed
CallToolUnvalidated(c, request) ==
    /\ Settled(c)
    /\ call' = [call EXCEPT ![c] =
                  IF request.name \notin ToolNames
                  THEN ToolRejected(c, request, "Unknown tool")
                  ELSE IF ~request.arguments.given
                  THEN ToolRejected(c, request, "TypeError")
                  ELSE ToolIssued(c, request)]
    /\ UNCHANGED <<evaluationHistory, performanceHistory, started, probe>>

\* a CallTool request arrives: the handler switches on the tool name, takes
\* document and options out of the arguments, parses them and calls the
\* analyzer, which issues its oracle call or calls
CallTool(c, request) ==
    /\ Settled(c)
    /\ LET arguments == request.arguments
           document  == arguments.document
           options   == DefaultedOptions(arguments.options)
       IN  call' = [call EXCEPT ![c] =
              IF request.name \notin ToolNames
              THEN ToolRejected(c, request, "Unknown tool")
              ELSE IF ~arguments.given
              THEN ToolRejected(c, request, "TypeError")
              ELSE IF ~LegalDocumentSchema(document)
              THEN ToolRejected(c, request, "ZodError")
              ELSE IF /\ request.name = "summarize_legal_document"
                      /\ ~SummarizationOptionsSchema(options)
              THEN ToolRejected(c, request, "ZodError")
              ELSE IF /\ request.name = "classify_legal_document"
                      /\ ~ClassificationOptionsSchema(options)
              THEN ToolRejected(c, request, "ZodError")
              ELSE ToolIssued(c, request)]
    /\ UNCHANGED <<evaluationHistory, performanceHistory, started, probe>>

\* the one oracle call of summarize_legal_document or classify_legal_document
\* completes: the handler returns the result as text
ToolResolved(c) ==
    /\ call[c].pc \in {"summarizeDocument", "classifyDocument"}
    /\ call' = [call EXCEPT ![c].pc = "returned",
                            ![c].summary =
                                IF @ = "pending" THEN "resolved" ELSE @,
                            ![c].classification =
                                IF @ = "pending" THEN "resolved" ELSE @]
    /\ UNCHANGED <<evaluationHistory, performanceHistory, started, probe>>

\* SummarizeResolved going on to evaluateSummarization without waiting for
\* the classification
SummarizeResolvedAlone(c) ==
    /\ call[c].pc = "analyzeDocumentFull"
    /\ call[c].summary = "pending"
    /\ call' = [call EXCEPT ![c].summary = "resolved",
                            ![c].pc = "evaluateSummarization",
                            ![c].issued = Append(@, "evaluateSummarization")]
    /\ UNCHANGED <<evaluationHistory, performanceHistory, started, probe>>

\* summarizeDocument's completion arrives; with both in, analyzeDocumentFull
\* returns: to the tool handler, which returns the result, or to the
\* framework, where evaluateAnalysis starts and evaluateSummarization issues
\* its call
SummarizeResolved(c) ==
    /\ call[c].pc = "analyzeDocumentFull"
    /\ call[c].summary = "pending"
    /\ call' = IF call[c].classification # "resolved"
               THEN [call EXCEPT ![c].summary = "resolved"]
               ELSE IF call[c].tool # NoRequest
               THEN [call EXCEPT ![c].summary = "resolved",
                                 ![c].pc = "returned"]
               ELSE [call EXCEPT ![c].summary = "resolved",
                                 ![c].pc = "evaluateSummarization",
                                 ![c].issued = Append(@, "evaluateSummarization")]
    /\ UNCHANGED <<evaluationHistory, performanceHistory, started, probe>>

ClassifyResolved(c, confidence) ==
    /\ call[c].pc = "analyzeDocumentFull"
    /\ call[c].classification = "pending"
    /\ call' = IF call[c].summary # "resolved"
               THEN [call EXCEPT ![c].classification = "resolved",
                                 ![c].confidence = confidence]
               ELSE IF call[c].tool # NoRequest
               THEN [call EXCEPT ![c].classification = "resolved",
                                 ![c].confidence = confidence,
                                 ![c].pc = "returned"]
               ELSE [call EXCEPT ![c].classification = "resolved",
                                 ![c].confidence = confidence,
                                 ![c].pc = "evaluateSummarization",
                                 ![c].issued = Append(@, "evaluateSummarization")]
    /\ UNCHANGED <<evaluationHistory, performanceHistory, started, probe>>

\* OracleFails with the failed call issued again, once, instead of rejecting
OracleFailsRetried(c, error) ==
    /\ AwaitsOracle(c)
    /\ call[c].error = "none"
    /\ call' = [call EXCEPT ![c].error = error,
                            ![c].issued = Append(@, @[Len(@)])]
    /\ UNCHANGED <<evaluationHistory, performanceHistory, started, probe>>

\* OracleFails with the report pushed all the same when it is the
\* recommendations call that fails
OracleFailsRecorded(c, error) ==
    /\ AwaitsOracle(c)
    /\ call' = [call EXCEPT ![c].pc = "rejected", ![c].error = error]
    /\ evaluationHistory' =
         IF call[c].pc = "generateImprovementRecommendations"
         THEN Append(evaluationHistory,
                     EvaluationReport(call[c].scoreboard, call[c].performanceInsights))
         ELSE evaluationHistory
    /\ UNCHANGED <<performanceHistory, started, probe>>

\* generateStructuredCompletion throws: the awaiting chain rejects up to the
\* caller of the evaluation, or of the batch or tool call it is part of
OracleFails(c, error) ==
    /\ AwaitsOracle(c)
    /\ call' = [call EXCEPT ![c].pc = "rejected", ![c].error = error]
    /\ UNCHANGED <<evaluationHistory, performanceHistory, started, probe>>

\* the summarization judgment arrives: evaluateSummarization builds its eight
\* metrics and evaluateClassification issues its call
SummarizationJudged(c, rawScores) ==
    /\ call[c].pc = "evaluateSummarization"
    /\ call' =
         IF MetricScoresThrow(rawScores)
         THEN [call EXCEPT ![c].rawSummarization = rawScores,
                           ![c].pc = "rejected",
                           ![c].error = "TypeError"]
         ELSE [call EXCEPT ![c].rawSummarization = rawScores,
                           ![c].summarizationScores =
                               MetricScores(SummarizationFields, rawScores),
                           ![c].pc = "evaluateClassification",
                           ![c].issued = Append(@, "evaluateClassification")]
    /\ UNCHANGED <<evaluationHistory, performanceHistory, started, probe>>

\* the classification judgment arrives: the rest of evaluateAnalysis runs, and
\* in runComprehensiveEvaluation generatePerformanceInsights reads the history
\* and generateImprovementRecommendations issues its call
ClassificationJudged(c, rawScores, roundErr, percentileErr, trendErr, breakdownErr) ==
    /\ call[c].pc = "evaluateClassification"
    /\ IF MetricScoresThrow(rawScores)
       THEN /\ call' = [call EXCEPT ![c].rawClassification = rawScores,
                                    ![c].pc = "rejected",
                                    ![c].error = "TypeError"]
            /\ UNCHANGED performanceHistory
       ELSE LET scoreboard ==
                    Scoreboard(call[c].request, call[c].confidence, call[c].config,
                               call[c].summarizationScores,
                               MetricScores(ClassificationFields, rawScores),
                               roundErr, percentileErr)
            IN  /\ performanceHistory' =
                      updatePerformanceHistory(performanceHistory, scoreboard)
                /\ call' =
                      IF call[c].direct
                      THEN [call EXCEPT ![c].rawClassification = rawScores,
                                        ![c].scoreboard = scoreboard,
                                        ![c].pc = "returned"]
                      ELSE [call EXCEPT ![c].rawClassification = rawScores,
                                        ![c].scoreboard = scoreboard,
                                        ![c].performanceInsights =
                                            generatePerformanceInsights(evaluationHistory,
                                                                        scoreboard,
                                                                        trendErr,
                                                                        breakdownErr),
                                        ![c].pc = "generateImprovementRecommendations",
                                        ![c].issued =
                                            Append(@, "generateImprovementRecommendations")]
    /\ UNCHANGED <<evaluationHistory, started, probe>>

\* ClassificationJudged under every rounding error its arithmetic can meet
JudgedWithErrors(c, rawScores) ==
    /\ call[c].pc = "evaluateClassification"
    /\ LET summarizationScores  == call[c].summarizationScores
           classificationScores == MetricScores(ClassificationFields, rawScores)
       IN  \E roundErr \in OverallRoundingErrors(summarizationScores,
                                                  classificationScores) :
             \E percentileErr \in
                   PercentileRoundingErrors(
                       calculateOverallScore(summarizationScores,
                                             classificationScores, roundErr)) :
               \E trendErr \in TrendRoundingErrors(evaluationHistory) :
                 \E breakdownErr \in
                       (IF call[c].direct THEN {NoBreakdownError}
                        ELSE BreakdownRoundingErrors(summarizationScores,
                                                     classificationScores)) :
                   ClassificationJudged(c, rawScores, roundErr, percentileErr,
                                        trendErr, breakdownErr)

\* RecommendationsResolved keeping the history in the order of issue: the
\* report goes before the entries of requests issued later
RecommendationsResolvedInIssueOrder(c) ==
    /\ call[c].pc = "generateImprovementRecommendations"
    /\ LET earlier == {i \in 1..Len(evaluationHistory) :
                          evaluationHistory[i].documentId < call[c].request}
           k       == Cardinality(earlier)
       IN  evaluationHistory' =
              SubSeq(evaluationHistory, 1, k)
                 \o <<EvaluationReport(call[c].scoreboard, call[c].performanceInsights)>>
                 \o SubSeq(evaluationHistory, k + 1, Len(evaluationHistory))
    /\ call' = [call EXCEPT ![c].pc = "returned"]
    /\ UNCHANGED <<performanceHistory, started, probe>>

\* RecommendationsResolved putting the report at the front (unshift)
RecommendationsResolvedUnshift(c) ==
    /\ call[c].pc = "generateImprovementRecommendations"
    /\ evaluationHistory' =
         <<EvaluationReport(call[c].scoreboard, call[c].performanceInsights)>>
            \o evaluationHistory
    /\ call' = [call EXCEPT ![c].pc = "returned"]
    /\ UNCHANGED <<performanceHistory, started, probe>>

\* RecommendationsResolved putting the report of a batch's document before
\* the reports the batch already has
RecommendationsResolvedBatchReversed(c) ==
    /\ call[c].pc = "generateImprovementRecommendations"
    /\ LET report  == EvaluationReport(call[c].scoreboard, call[c].performanceInsights)
           reports == <<report>> \o call[c].individualReports
       IN  /\ evaluationHistory' = Append(evaluationHistory, report)
           /\ \E err \in AggregateRoundingErrors(reports) :
                 call' =
                   IF ~call[c].batching
                   THEN [call EXCEPT ![c].pc = "returned"]
                   ELSE IF Len(reports) < call[c].documents
                   THEN [call EXCEPT ![c] =
                           BatchEvaluating(c, call[c].documents, call[c].first,
                                           call[c].config, reports)]
                   ELSE [call EXCEPT ![c].individualReports = reports,
                                     ![c].aggregateAnalysis =
                                         generateAggregateAnalysis(reports, err),
                                     ![c].pc = "returned"]
    /\ UNCHANGED <<performanceHistory, started, probe>>

\* the recommendations arrive: the report is compiled, pushed and returned.
\* Returned into batchEvaluation, it is pushed to individualReports and the
\* loop goes on to the next document, or, after the last, the aggregate
\* analysis is made and the batch returns
RecommendationsResolved(c) ==
    /\ call[c].pc = "generateImprovementRecommendations"
    /\ LET report  == EvaluationReport(call[c].scoreboard, call[c].performanceInsights)
           reports == Append(call[c].individualReports, report)
       IN  /\ evaluationHistory' = Append(evaluationHistory, report)
           /\ \E err \in AggregateRoundingErrors(reports) :
                 call' =
                   IF ~call[c].batching
                   THEN [call EXCEPT ![c].pc = "returned"]
                   ELSE IF Len(reports) < call[c].documents
                   THEN [call EXCEPT ![c] =
                           BatchEvaluating(c, call[c].documents, call[c].first,
                                           call[c].config, reports)]
                   ELSE [call EXCEPT ![c].individualReports = reports,
                                     ![c].aggregateAnalysis =
                                         generateAggregateAnalysis(reports, err),
                                     ![c].pc = "returned"]
    /\ UNCHANGED <<performanceHistory, started, probe>>

----------------------------------------------------------------------------
(* The framework, two callers *)

Next ==
    \E c \in Callers :
        \/ runComprehensiveEvaluation(c, NoConfig)
        \/ SummarizeResolved(c)
        \/ \E confidence \in ProfileConfidences : ClassifyResolved(c, confidence)
        \/ \E error \in OracleErrors : OracleFails(c, error)
        \/ \E rawScores \in ProfileJudgments(Len(SummarizationFields)) :
              SummarizationJudged(c, rawScores)
        \/ \E rawScores \in ProfileJudgments(Len(ClassificationFields)) :
              JudgedWithErrors(c, rawScores)
        \/ RecommendationsResolved(c)

Spec == Init /\ [][Next]_vars

(* The scoreboard builder called on its own, one caller *)

NextBuilder ==
    \/ \E input \in BuilderInputs : evaluateAnalysis("c1", input.confidence, input.config)
    \/ \E error \in OracleErrors : OracleFails("c1", error)
    \/ \E rawScores \in RichJudgments(Len(SummarizationFields)) :
          SummarizationJudged("c1", rawScores)
    \/ \E rawScores \in RichJudgments(Len(ClassificationFields)) :
          JudgedWithErrors("c1", rawScores)

SpecBuilder == Init /\ [][NextBuilder]_vars

(* A batch caller beside a caller of single evaluations *)

NextBatch ==
    \/ \E documents \in 0..MaxBatch : batchEvaluation("c1", documents, NoConfig)
    \/ runComprehensiveEvaluation("c2", NoConfig)
    \/ \E c \in Callers :
          \/ SummarizeResolved(c)
          \/ \E confidence \in ProfileConfidences : ClassifyResolved(c, confidence)
          \/ \E error \in OracleErrors : OracleFails(c, error)
          \/ \E rawScores \in ProfileJudgments(Len(SummarizationFields)) :
                SummarizationJudged(c, rawScores)
          \/ \E rawScores \in ProfileJudgments(Len(ClassificationFields)) :
                JudgedWithErrors(c, rawScores)
          \/ RecommendationsResolved(c)

SpecBatch == Init /\ [][NextBatch]_vars

(* The tool server, one client *)

NextServer ==
    \/ \E request \in ToolRequests : CallTool("c1", request)
    \/ ToolResolved("c1")
    \/ SummarizeResolved("c1")
    \/ \E confidence \in ProfileConfidences : ClassifyResolved("c1", confidence)
    \/ \E error \in OracleErrors : OracleFails("c1", error)

SpecServer == Init /\ [][NextServer]_vars

----------------------------------------------------------------------------
(* The engine's functions applied one at a time to drawn arguments *)

SeqsUpTo(S, n) == UNION {[1..k -> S] : k \in 0..n}

ProbeScores == {Finite(v) : v \in -500..10500} \cup {NaN}

ProbeJudgments ==
    {NumberJudgment(v) : v \in -3000..15000}
    \cup {MissingScore, NullScore, TextScore, AbsentJudgment}
    \cup {WithFeedback(NumberJudgment(v), f) :
            v \in {3000, 7000, 9500}, f \in Feedbacks}

\* metrics as the aggregator may be handed them: any score, any weight
ProbeMetrics ==
    {[category |-> "accuracy", score |-> s, level |-> getScoreLevel(s), weight |-> w,
      feedback |-> ""] :
        s \in {Finite(0), Finite(5000), Finite(10000), NaN}, w \in {0, 5, 20}}

\* metric lists to aggregate in two orders: they include lists whose weighted
\* mean lies halfway between two hundredths, (0, .05), (1, .05), (10, .3)
PermutationMetrics ==
    {[category |-> "accuracy", score |-> s, level |-> getScoreLevel(s), weight |-> w,
      feedback |-> ""] :
        s \in {Finite(0), Finite(1000), Finite(10000)}, w \in {5, 30}}

Reorderings(n) ==
    {p \in [1..n -> 1..n] : \A i, j \in 1..n : p[i] = p[j] => i = j}

Permute(allScores, p) == [i \in 1..Len(allScores) |-> allScores[p[i]]]

\* a list and a reordering of it, each with the rounding error its own
\* summation may make: the additions of doubles are made in list order, and
\* two orders of three or more terms need not give the same double
PermutedArguments ==
    {a \in
        {[op |-> "calculateOverallScorePermuted", applied |-> FALSE,
          allScores |-> allScores,
          permuted |-> Permute(allScores, p),
          err |-> err, errPermuted |-> errPermuted] :
            allScores \in [1..(MaxMetrics + 1) -> PermutationMetrics],
            p \in Reorderings(MaxMetrics + 1),
            err \in RoundingErrors, errPermuted \in RoundingErrors} :
        /\ a.err \in OverallRoundingErrors(a.allScores, << >>)
        /\ a.errPermuted \in OverallRoundingErrors(a.permuted, << >>)
        /\ a.permuted = a.allScores => a.errPermuted = a.err}

\* judgments of the classification criteria for the scoreboards handed to
\* generatePerformanceInsights
InsightClassificationJudgments ==
    LET n == Len(ClassificationFields)
    IN  {Uniform(n, b) : b \in BaseJudgments \cup FineJudgments}
        \cup {[Uniform(n, NumberJudgment(6000)) EXCEPT ![1] = d] :
                d \in OddJudgments \ {AbsentJudgment}}
        \cup FeedbackJudgments(n)

\* a scoreboard as evaluateAnalysis builds it, with the rounding errors its
\* insights are then computed under
InsightArguments ==
    {[op |-> "generatePerformanceInsights", applied |-> FALSE,
      scoreboard |-> scoreboard, breakdownErr |-> breakdownErr] :
        scoreboard \in
            {Scoreboard(0, Number(90), NoConfig,
                        MetricScores(SummarizationFields, summarization),
                        MetricScores(ClassificationFields, classification), 0, 0) :
                summarization \in
                    {r \in RichJudgments(Len(SummarizationFields)) :
                        ~MetricScoresThrow(r)},
                classification \in InsightClassificationJudgments},
        breakdownErr \in
            {[summarization |-> a, classification |-> b] :
                a \in RoundingErrors, b \in RoundingErrors}}

\* overall scores as calculateOverallScore returns them from metrics in range
ProbeOverallScores == {Finite(10 * v) : v \in 0..1000}

\* the arguments of one application, drawn before it is made
ProbeArguments ==
    {[op |-> "getScoreLevel", applied |-> FALSE, score |-> score] :
        score \in ProbeScores}
    \cup {[op |-> "createMetricScore", applied |-> FALSE, rawScore |-> rawScore] :
        rawScore \in ProbeJudgments}
    \cup {[op |-> "calculateOverallScore", applied |-> FALSE,
           summarizationScores |-> summarizationScores,
           classificationScores |-> classificationScores,
           err |-> err] :
        summarizationScores \in SeqsUpTo(ProbeMetrics, MaxMetrics),
        classificationScores \in SeqsUpTo(ProbeMetrics, 1),
        err \in RoundingErrors}
    \cup {[op |-> "generateBenchmarkComparison", applied |-> FALSE,
           overallScore |-> overallScore, err |-> err] :
        overallScore \in ProbeOverallScores, err \in RoundingErrors}
    \cup PermutedArguments
    \cup {a \in InsightArguments :
            a.breakdownErr \in
                BreakdownRoundingErrors(a.scoreboard.summarizationScores,
                                        a.scoreboard.classificationScores)}

InitProbe ==
    /\ evaluationHistory = << >>
    /\ performanceHistory = << >>
    /\ call = [c \in Callers |-> IdleCall]
    /\ started = 0
    /\ probe \in ProbeArguments

ProbeGetScoreLevel ==
    /\ probe.op = "getScoreLevel"
    /\ ~probe.applied
    /\ probe' = [op |-> "getScoreLevel", applied |-> TRUE, score |-> probe.score,
                 out |-> getScoreLevel(probe.score)]
    /\ UNCHANGED <<evaluationHistory, performanceHistory, call, started>>

ProbeCreateMetricScore ==
    /\ probe.op = "createMetricScore"
    /\ ~probe.applied
    /\ probe' = IF createMetricScoreThrows(probe.rawScore)
                THEN [op |-> "createMetricScore", applied |-> TRUE,
                      rawScore |-> probe.rawScore, threw |-> TRUE, out |-> Nothing]
                ELSE [op |-> "createMetricScore", applied |-> TRUE,
                      rawScore |-> probe.rawScore, threw |-> FALSE,
                      out |-> createMetricScore("accuracy", probe.rawScore, 20)]
    /\ UNCHANGED <<evaluationHistory, performanceHistory, call, started>>

ProbeCalculateOverallScore ==
    /\ probe.op = "calculateOverallScore"
    /\ ~probe.applied
    /\ probe' = [op |-> "calculateOverallScore", applied |-> TRUE,
                 summarizationScores |-> probe.summarizationScores,
                 classificationScores |-> probe.classificationScores,
                 err |-> probe.err,
                 out |-> calculateOverallScore(probe.summarizationScores,
                                               probe.classificationScores,
                                               probe.err)]
    /\ UNCHANGED <<evaluationHistory, performanceHistory, call, started>>

ProbeGenerateBenchmarkComparison ==
    /\ probe.op = "generateBenchmarkComparison"
    /\ ~probe.applied
    /\ probe' = [op |-> "generateBenchmarkComparison", applied |-> TRUE,
                 overallScore |-> probe.overallScore,
                 err |-> probe.err,
                 out |-> generateBenchmarkComparison(probe.overallScore, probe.err)]
    /\ UNCHANGED <<evaluationHistory, performanceHistory, call, started>>

\* calculateOverallScore applied to a list and to a reordering of it
ProbeCalculateOverallScorePermuted ==
    /\ probe.op = "calculateOverallScorePermuted"
    /\ ~probe.applied
    /\ probe' = [op |-> "calculateOverallScorePermuted", applied |-> TRUE,
                 allScores |-> probe.allScores,
                 permuted |-> probe.permuted,
                 err |-> probe.err,
                 errPermuted |-> probe.errPermuted,
                 out |-> calculateOverallScore(probe.allScores, << >>, probe.err),
                 outPermuted |-> calculateOverallScore(probe.permuted, << >>,
                                                       probe.errPermuted)]
    /\ UNCHANGED <<evaluationHistory, performanceHistory, call, started>>

\* generatePerformanceInsights applied on a framework with no history
ProbeGeneratePerformanceInsights ==
    /\ probe.op = "generatePerformanceInsights"
    /\ ~probe.applied
    /\ probe' = [op |-> "generatePerformanceInsights", applied |-> TRUE,
                 scoreboard |-> probe.scoreboard,
                 breakdownErr |-> probe.breakdownErr,
                 out |-> generatePerformanceInsights(evaluationHistory, probe.scoreboard,
                                                     0, probe.breakdownErr)]
    /\ UNCHANGED <<evaluationHistory, performanceHistory, call, started>>

NextProbe ==
    \/ ProbeGetScoreLevel
    \/ ProbeCreateMetricScore
    \/ ProbeCalculateOverallScore
    \/ ProbeCalculateOverallScorePermuted
    \/ ProbeGeneratePerformanceInsights
    \/ ProbeGenerateBenchmarkComparison

SpecProbe == InitProbe /\ [][NextProbe]_vars

----------------------------------------------------------------------------
(* The trend functions on a framework that has completed some evaluations *)

TrendScores == {0, 4740, 4750, 5000, 5250, 5260, 10000}

\* the report runComprehensiveEvaluation pushes when both judgments give every
\* criterion the score v and the history is `history` throughout
UniformReport(history, v, err) ==
    LET scoreboard ==
            Scoreboard(Len(history) + 1, Number(90), NoConfig,
                       MetricScores(SummarizationFields,
                                    Uniform(Len(SummarizationFields), NumberJudgment(v))),
                       MetricScores(ClassificationFields,
                                    Uniform(Len(ClassificationFields), NumberJudgment(v))),
                       err, err)
    IN  EvaluationReport(scoreboard,
                         generatePerformanceInsights(history, scoreboard, err,
                             [summarization |-> err, classification |-> err]))

\* the history after successive evaluations with these uniform scores
RECURSIVE HistoryOfScores(_, _)
HistoryOfScores(scores, err) ==
    IF scores = << >> THEN << >>
    ELSE LET history == HistoryOfScores(SubSeq(scores, 1, Len(scores) - 1), err)
         IN  Append(history, UniformReport(history, scores[Len(scores)], err))

InitTrend ==
    /\ \E scores \in SeqsUpTo(TrendScores, MaxHistory), err \in RoundingErrors :
          /\ evaluationHistory = HistoryOfScores(scores, err)
          /\ started = Len(scores)
    /\ performanceHistory = << >>
    /\ call = [c \in Callers |-> IdleCall]
    /\ probe = NoProbe

ProbeDetermineTrendDirection(err) ==
    /\ probe' = [op |-> "determineTrendDirection", applied |-> TRUE, err |-> err,
                 out |-> determineTrendDirection(evaluationHistory, err)]
    /\ UNCHANGED <<evaluationHistory, performanceHistory, call, started>>

ProbeCalculateImprovementFromHistory(currentScore) ==
    /\ probe' = [op |-> "calculateImprovementFromHistory", applied |-> TRUE,
                 currentScore |-> currentScore,
                 out |-> calculateImprovementFromHistory(evaluationHistory, currentScore)]
    /\ UNCHANGED <<evaluationHistory, performanceHistory, call, started>>

NextTrend ==
    \/ \E err \in RoundingErrors : ProbeDetermineTrendDirection(err)
    \/ \E v \in TrendScores : ProbeCalculateImprovementFromHistory(Finite(v))

SpecTrend == InitTrend /\ [][NextTrend]_vars

----------------------------------------------------------------------------
(* Properties *)

\* caller c holds a scoreboard evaluateAnalysis has assembled
HasScoreboard(c) == call[c].pc \in {"generateImprovementRecommendations", "returned"}

AllMetrics(scoreboard) ==
    scoreboard.summarizationScores \o scoreboard.classificationScores

InRange(score) == score.kind = "finite" /\ score.val >= 0 /\ score.val <= 10000

AllInRange(scoreboard) ==
    \A i \in 1..Len(AllMetrics(scoreboard)) : InRange(AllMetrics(scoreboard)[i].score)

\* sum of score_i * weight_i (1e-5 units) and of weight_i (hundredths)
ScoreWeightSum(metrics) ==
    LET S[k \in 0..Len(metrics)] ==
            IF k = 0 THEN 0 ELSE S[k - 1] + metrics[k].score.val * metrics[k].weight
    IN  S[Len(metrics)]

WeightSum(metrics) ==
    LET S[k \in 0..Len(metrics)] ==
            IF k = 0 THEN 0 ELSE S[k - 1] + metrics[k].weight
    IN  S[Len(metrics)]

\* C1 (as amended): in every scoreboard the metrics are the 8 summarization and
\* the 6 classification metrics, and when every metric score lies in [0,10] the
\* overall score is the weighted mean sum(score_i * weight_i) / sum(weight_i),
\* each metric with its own weight, rounded to two decimals (so within 0.005 of
\* the mean), and lies in [0,10].
C1_OverallIsRoundedWeightedMean ==
    \A c \in Callers :
        HasScoreboard(c) =>
            LET scoreboard == call[c].scoreboard
                metrics    == AllMetrics(scoreboard)
                S          == ScoreWeightSum(metrics)
                W          == WeightSum(metrics)
                overall    == scoreboard.overallScore
            IN  /\ Len(scoreboard.summarizationScores) = 8
                /\ Len(scoreboard.classificationScores) = 6
                /\ AllInRange(scoreboard) =>
                      /\ InRange(overall)
                      /\ overall.val % 10 = 0
                      /\ Abs(overall.val * W - S) <= 5 * W

\* C1 witness: a scoreboard whose weighted mean is not a whole number of
\* hundredths, so that the rounding has acted
C1_Witness ==
    /\ HasScoreboard("c1")
    /\ AllInRange(call["c1"].scoreboard)
    /\ ScoreWeightSum(AllMetrics(call["c1"].scoreboard))
          % (10 * WeightSum(AllMetrics(call["c1"].scoreboard))) # 0

\* C1 as stated: the overall score equals sum(score_i * weight_i) /
\* sum(weight_i) over the 14 metrics and lies in [0,10] when every score does.
C1_OverallIsExactWeightedMean ==
    \A c \in Callers :
        (HasScoreboard(c) /\ AllInRange(call[c].scoreboard)) =>
            LET metrics == AllMetrics(call[c].scoreboard)
                overall == call[c].scoreboard.overallScore
            IN  /\ InRange(overall)
                /\ overall.val * WeightSum(metrics) = ScoreWeightSum(metrics)

\* C2: aggregating a metric set that is empty or whose weights sum to zero
\* fails with a configuration error; the aggregator never returns NaN or
\* Infinity.
C2_AggregateGuardsZeroWeight ==
    (probe.op = "calculateOverallScore" /\ probe.applied) =>
        LET metrics == probe.summarizationScores \o probe.classificationScores
        IN  IF Len(metrics) = 0 \/ WeightSum(metrics) = 0
            THEN probe.out.kind = "ConfigurationError"
            ELSE probe.out.kind = "finite"

\* C3: once the oracle has returned a criterion judgment whose score is missing
\* or not a number, the evaluation is rejected: no metric and no scoreboard is
\* built from it.
C3_MalformedJudgmentRejects ==
    \A c \in Callers :
        LET malformed(rawScores) ==
                \E i \in 1..Len(rawScores) :
                    rawScores[i].present /\ rawScores[i].t # "number"
        IN  (malformed(call[c].rawSummarization) \/ malformed(call[c].rawClassification))
                => call[c].pc = "rejected"

\* C4: getScoreLevel maps a score to exactly one of the five tiers, each band
\* inclusive at its lower end: >= 9.0 excellent, [7.5, 9.0) good, [6.0, 7.5)
\* satisfactory, [4.0, 6.0) needs improvement, < 4.0 poor.
C4_TierBands ==
    (probe.op = "getScoreLevel" /\ probe.applied /\ probe.score.kind = "finite") =>
        LET v == probe.score.val
        IN  /\ probe.out \in ScoreLevel
            /\ probe.out = "excellent" <=> v >= 9000
            /\ probe.out = "good" <=> (7500 <= v /\ v < 9000)
            /\ probe.out = "satisfactory" <=> (6000 <= v /\ v < 7500)
            /\ probe.out = "needs_improvement" <=> (4000 <= v /\ v < 6000)
            /\ probe.out = "poor" <=> v < 4000

\* C4 witness: the boundary 7.5 has been classified, as good
C4_Witness ==
    /\ probe.op = "getScoreLevel"
    /\ probe.applied
    /\ probe.score = Finite(7500)
    /\ probe.out = "good"

\* C5: in every metric of every scoreboard the level is the tier of the stored
\* score and the stored score lies in [0,10].
C5_MetricLevelAndRange ==
    \A c \in Callers :
        HasScoreboard(c) =>
            \A i \in 1..Len(AllMetrics(call[c].scoreboard)) :
                LET metric == AllMetrics(call[c].scoreboard)[i]
                IN  /\ metric.level = getScoreLevel(metric.score)
                    /\ InRange(metric.score)

\* C6: createMetricScore on a numeric raw score does not fail and clamps before
\* tiering: above 10 is stored as 10 and excellent, below 0 is stored as 0 and
\* poor, within [0,10] is stored unchanged.
C6_ClampBeforeTier ==
    (/\ probe.op = "createMetricScore"
     /\ probe.applied
     /\ probe.rawScore.present
     /\ probe.rawScore.t = "number") =>
        LET v == probe.rawScore.v
        IN  /\ ~probe.threw
            /\ probe.out.score.kind = "finite"
            /\ v > 10000 => probe.out.score.val = 10000 /\ probe.out.level = "excellent"
            /\ v < 0 => probe.out.score.val = 0 /\ probe.out.level = "poor"
            /\ (0 <= v /\ v <= 10000) => probe.out.score.val = v

\* C6 witness: the raw score 15 has been stored as 10, excellent
C6_Witness ==
    /\ probe.op = "createMetricScore"
    /\ probe.applied
    /\ probe.rawScore = NumberJudgment(15000)
    /\ ~probe.threw
    /\ probe.out.score = Finite(10000)
    /\ probe.out.level = "excellent"

\* C7: in every scoreboard the five tier counts sum to the total metric count,
\* which is 14.
C7_TierCountsSumToTotal ==
    \A c \in Callers :
        HasScoreboard(c) =>
            LET a == call[c].scoreboard.aggregateMetrics
            IN  /\ a.totalMetrics = 14
                /\ a.excellentCount + a.goodCount + a.satisfactoryCount
                      + a.needsImprovementCount + a.poorCount = a.totalMetrics

\* C7 witness: a scoreboard with 13 excellent metrics and one that needs
\* improvement
C7_Witness ==
    /\ HasScoreboard("c1")
    /\ call["c1"].scoreboard.aggregateMetrics.excellentCount = 13
    /\ call["c1"].scoreboard.aggregateMetrics.needsImprovementCount = 1

\* C8: the percent change reported for an evaluation is 0 when fewer than 2
\* evaluations precede it in the history, and otherwise
\* (current - previous) / previous * 100 with previous the overall score of the
\* most recent entry recorded before it.  Stated for evaluations made one
\* after another by caller c1 alone, at the point where the insights have
\* been computed and the history is still the one they were computed from.
C8_PercentChangeFromPreceding ==
    (call["c2"].pc = "idle" /\ call["c1"].pc = "generateImprovementRecommendations") =>
        LET current  == call["c1"].scoreboard.overallScore.val
            reported == call["c1"].performanceInsights.percentageImprovement
            n        == Len(evaluationHistory)
        IN  IF n < 2 THEN reported = Fraction(0, 1)
            ELSE LET previous == HistoryScore(evaluationHistory, n).val
                 IN  /\ reported.kind = "finite"
                     /\ reported.num * previous = (current - previous) * 100 * reported.den

\* C9: determineTrendDirection is stable on a history of fewer than 3 entries;
\* otherwise, with r = (scores[-1] - scores[-3]) / scores[-3] as computed over
\* the last three entries (scores[-3] not 0), it is improving if r > 0.05,
\* declining if r < -0.05 and stable otherwise, r = 0.05 and r = -0.05 included.
C9_TrendDirection ==
    (probe.op = "determineTrendDirection" /\ probe.applied) =>
        LET n == Len(evaluationHistory)
        IN  IF n < 3 THEN probe.out = "stable"
            ELSE LET first == HistoryScore(evaluationHistory, n - 2).val
                     last  == HistoryScore(evaluationHistory, n).val
                     \* the computed r against 5/100 and -5/100
                     above == \/ 100 * (last - first) > 5 * first
                              \/ 100 * (last - first) = 5 * first /\ probe.err > 0
                     below == \/ 100 * (last - first) < -5 * first
                              \/ 100 * (last - first) = -5 * first /\ probe.err < 0
                 IN  first > 0 =>
                        /\ probe.out = "improving" <=> above
                        /\ probe.out = "declining" <=> below
                        /\ probe.out = "stable" <=> (~above /\ ~below)

\* C9 witness: the last three entries run from 5.0 to 5.25, the computed r is
\* 0.05 exactly, and the trend has been found stable
C9_Witness ==
    /\ probe.op = "determineTrendDirection"
    /\ probe.applied
    /\ probe.err = 0
    /\ Len(evaluationHistory) = 3
    /\ HistoryScore(evaluationHistory, 1) = Finite(5000)
    /\ HistoryScore(evaluationHistory, 3) = Finite(5250)
    /\ probe.out = "stable"

\* C10: three successive evaluations on a fresh framework with overall scores
\* 6.0, 6.0 and 7.0 report the trend improving in the third result.  Caller c1
\* makes the three calls one after another; c2 makes none.
C10_ThirdEvaluationImproving ==
    (/\ call["c2"].pc = "idle"
     /\ call["c1"].pc = "returned"
     /\ started = 3
     /\ Len(evaluationHistory) = 3
     /\ HistoryScore(evaluationHistory, 1) = Finite(6000)
     /\ HistoryScore(evaluationHistory, 2) = Finite(6000)
     /\ HistoryScore(evaluationHistory, 3) = Finite(7000)) =>
        /\ call["c1"].performanceInsights.trendDirection = "improving"
        /\ evaluationHistory[3].performanceInsights.trendDirection = "improving"

\* C11: when the history score a percent change or a trend is measured against
\* is exactly 0, the percent change is still a finite number (never Infinity,
\* never NaN) and no direction is read off the ratio: the trend is not reported
\* improving or declining.
C11_ZeroDenominatorGuarded ==
    /\ (probe.op = "calculateImprovementFromHistory" /\ probe.applied)
          => probe.out.kind = "finite"
    /\ (/\ probe.op = "determineTrendDirection"
        /\ probe.applied
        /\ Len(evaluationHistory) >= 3
        /\ HistoryScore(evaluationHistory, Len(evaluationHistory) - 2) = Finite(0))
          => probe.out = "stable"

\* caller c's evaluation completes in this step: its last oracle call, the
\* recommendations, has resolved and runComprehensiveEvaluation returns
Completes(c) ==
    /\ call[c].pc = "generateImprovementRecommendations"
    /\ call'[c].pc = "returned"

\* C12: the evaluation history is append-only.  Every step leaves the entries
\* already recorded where and as they were; the history grows by exactly one
\* entry, at the end, in exactly the steps in which an evaluation completes
\* successfully, and the scoreboard recorded is the one that evaluation built.
C12_HistoryAppendOnly ==
    [][/\ Len(evaluationHistory') \in {Len(evaluationHistory), Len(evaluationHistory) + 1}
       /\ SubSeq(evaluationHistory', 1, Len(evaluationHistory)) = evaluationHistory
       /\ Len(evaluationHistory') = Len(evaluationHistory) + 1
             <=> \E c \in Callers : Completes(c)
       /\ \A c \in Callers :
             Completes(c) =>
                evaluationHistory'[Len(evaluationHistory')].scoreboard = call[c].scoreboard
      ]_vars

\* C12 witness: three evaluations have completed and each is an entry
C12_Witness ==
    /\ Len(evaluationHistory) = 3
    /\ call["c1"].pc = "returned"
    /\ evaluationHistory[3].scoreboard = call["c1"].scoreboard

\* the scoreboard is an entry of the evaluator's history or the scoreboard of
\* an entry of the framework's
Recorded(scoreboard) ==
    \/ \E i \in 1..Len(performanceHistory) : performanceHistory[i] = scoreboard
    \/ \E i \in 1..Len(evaluationHistory) : evaluationHistory[i].scoreboard = scoreboard

\* C13: every scoreboard evaluateAnalysis has built is recorded into history,
\* whatever happened later in the request: once the request is over, with a
\* result or with a failure, the scoreboard built for it is in a history.
C13_BuiltScoreboardRecorded ==
    \A c \in Callers :
        (Settled(c) /\ call[c].scoreboard # Nothing) => Recorded(call[c].scoreboard)

\* no oracle call appears twice among those a request has issued
IssuedOnce(c) ==
    \A i, j \in 1..Len(call[c].issued) :
        call[c].issued[i] = call[c].issued[j] => i = j

\* C14: when an oracle call of an evaluation fails (upstream error, an answer
\* of another shape, or one that is not JSON), the evaluation is rejected with that failure in
\* the same step, in which nothing is issued and nothing recorded; a rejected
\* request stays as it is until its caller makes a new request, so it issues no
\* further call and returns no result; no call of a request was issued twice
\* and no entry of the history belongs to a rejected request.
C14_OracleFailureRejects ==
    /\ [][\A c \in Callers :
            /\ (call[c].error = "none" /\ call'[c].error \in OracleErrors) =>
                  /\ AwaitsOracle(c)
                  /\ call'[c].pc = "rejected"
                  /\ call'[c].issued = call[c].issued
                  /\ evaluationHistory' = evaluationHistory
            /\ (call[c].pc = "rejected" /\ call'[c] # call[c]) =>
                  /\ call'[c].request > call[c].request
                  /\ call'[c].pc = "analyzeDocumentFull"
         ]_vars
    /\ [](\A c \in Callers :
            /\ IssuedOnce(c)
            /\ (call[c].pc = "rejected" /\ call[c].error \in OracleErrors) =>
                  \A i \in 1..Len(evaluationHistory) :
                      evaluationHistory[i].documentId # call[c].request)

\* C14 witness: the summarization judgment of c1's request has failed to parse,
\* after three calls issued, and the request stands rejected
C14_Witness ==
    /\ call["c1"].pc = "rejected"
    /\ call["c1"].error = "Failed to parse LLM response as JSON"
    /\ call["c1"].issued = <<"summarizeDocument", "classifyDocument", "evaluateSummarization">>
    /\ call["c1"].scoreboard = Nothing

\* C15: with evaluations running concurrently, the history is in completion
\* order: in the step in which an evaluation completes (its last oracle call
\* finishes) its own report becomes the last entry, wherever its request stood
\* in the order of issue; no entry is lost or duplicated: the entries belong
\* to distinct requests, and every evaluation that has returned has its entry.
C15_HistoryInCompletionOrder ==
    /\ [][\A c \in Callers :
            Completes(c) =>
                /\ Len(evaluationHistory') = Len(evaluationHistory) + 1
                /\ evaluationHistory'[Len(evaluationHistory')].documentId = call[c].request
                /\ evaluationHistory'[Len(evaluationHistory')].scoreboard = call[c].scoreboard
         ]_vars
    /\ [](/\ \A i, j \in 1..Len(evaluationHistory) :
                evaluationHistory[i].documentId = evaluationHistory[j].documentId => i = j
          /\ \A i \in 1..Len(evaluationHistory) :
                evaluationHistory[i].documentId \in 1..started
          /\ \A c \in Callers :
                call[c].pc = "returned" =>
                    \E i \in 1..Len(evaluationHistory) :
                        evaluationHistory[i] =
                            EvaluationReport(call[c].scoreboard, call[c].performanceInsights))

\* C15 witness: c1's request was issued first and c2's second, both were in
\* flight together, c2's completed first: the history holds request 2, then 1
C15_Witness ==
    /\ call["c1"].request = 1
    /\ call["c2"].request = 2
    /\ call["c1"].pc = "returned"
    /\ call["c2"].pc = "returned"
    /\ Len(evaluationHistory) = 2
    /\ evaluationHistory[1].documentId = 2
    /\ evaluationHistory[2].documentId = 1

\* the oracle calls of one runComprehensiveEvaluation, in the order of issue
StageOrder ==
    <<"summarizeDocument", "classifyDocument", "evaluateSummarization",
      "evaluateClassification", "generateImprovementRecommendations">>

Issued(c, name) == \E i \in 1..Len(call[c].issued) : call[c].issued[i] = name

\* C16: the oracle calls of an evaluation are issued stage after stage: the
\* summarization and the classification of the document together, at the
\* start; the summarization-quality judgment only when both have completed;
\* the classification-quality judgment only when that judgment has completed;
\* the recommendations call only when the scoreboard is built.  A built
\* scoreboard has taken exactly two oracle calls of the builder, one for each
\* judgment.
C16_StagesInOrder ==
    \A c \in Callers :
        call[c].pc # "idle" =>
            /\ Len(call[c].issued) \in 2..5
            /\ call[c].issued = SubSeq(StageOrder, 1, Len(call[c].issued))
            /\ Issued(c, "evaluateSummarization") =>
                  call[c].summary = "resolved" /\ call[c].classification = "resolved"
            /\ Issued(c, "evaluateClassification") =>
                  call[c].rawSummarization # Nothing
            /\ Issued(c, "generateImprovementRecommendations") =>
                  call[c].scoreboard # Nothing
            /\ call[c].scoreboard # Nothing =>
                  /\ call[c].rawSummarization # Nothing
                  /\ call[c].rawClassification # Nothing
                  /\ Cardinality({i \in 1..Len(call[c].issued) :
                                    call[c].issued[i] \in {"evaluateSummarization",
                                                           "evaluateClassification"}}) = 2

\* C16 witness: c1's evaluation has returned after its five calls, while c2's
\* has both document calls in flight
C16_Witness ==
    /\ call["c1"].pc = "returned"
    /\ Len(call["c1"].issued) = 5
    /\ call["c2"].pc = "analyzeDocumentFull"
    /\ call["c2"].summary = "pending"
    /\ call["c2"].classification = "pending"

BenchmarkApplied == probe.op = "generateBenchmarkComparison" /\ probe.applied

\* C17: for every overall score in [0,10] the benchmark percentile is
\* round(overallScore / 10 * 100) clamped into [1,99]: a whole number between 1
\* and 99, 1 for the score 0 and 99 for the score 10, never 0 and never 100.
\* round is to the nearest whole number; where overallScore * 10 is a whole
\* number and a half the product the code has computed decides which side.
C17_PercentileClamped ==
    BenchmarkApplied =>
        LET v          == probe.overallScore.val
            percentile == probe.out.industryPercentile
            rounded    == IF AtHalf(v, 100) /\ probe.err < 0
                          THEN v \div 100
                          ELSE (v + 50) \div 100
        IN  /\ percentile.kind = "finite"
            /\ percentile.val \in 1..99
            /\ 2 * Abs(100 * rounded - v) <= 100
            /\ percentile.val = IF rounded < 1 THEN 1
                                ELSE IF rounded > 99 THEN 99 ELSE rounded
            /\ v = 0 => percentile.val = 1
            /\ v = 10000 => percentile.val = 99

\* C17 witness: the overall score 0 has been given the percentile 1
C17_Witness ==
    /\ BenchmarkApplied
    /\ probe.overallScore = Finite(0)
    /\ probe.out.industryPercentile = Finite(1)

\* C18 (as amended): aboveAverage is (overallScore - 7.2) / 7.2 * 100 rounded
\* to two decimals (within 0.005 of it); it is negative exactly when the
\* overall score is below 7.2, zero when equal, positive when above.
C18_AboveAverageRounded ==
    BenchmarkApplied =>
        LET v == probe.overallScore.val
            a == probe.out.aboveAverage
        IN  /\ a.kind = "finite"
            /\ 2 * Abs(a.val * 7200 - (v - 7200) * 10000) <= 7200
            /\ a.val < 0 <=> v < 7200
            /\ a.val = 0 <=> v = 7200
            /\ a.val > 0 <=> v > 7200

\* C18 witness: the overall score 6.0 has been given aboveAverage -16.67, the
\* quotient -16.666... rounded
C18_Witness ==
    /\ BenchmarkApplied
    /\ probe.overallScore = Finite(6000)
    /\ probe.out.aboveAverage = Finite(-1667)

\* C18 as stated: aboveAverage equals (overallScore - 7.2) / 7.2 * 100, with
\* the sign of overallScore - 7.2.
C18_AboveAverageExact ==
    BenchmarkApplied =>
        LET v == probe.overallScore.val
            a == probe.out.aboveAverage
        IN  /\ a.kind = "finite"
            /\ a.val * 7200 = (v - 7200) * 10000
            /\ a.val < 0 <=> v < 7200
            /\ a.val = 0 <=> v = 7200
            /\ a.val > 0 <=> v > 7200

\* C19: the benchmark label is the above-average one if and only if the
\* overall score is strictly above 7.2; a score of exactly 7.2 is labelled
\* below average; the label agrees with the sign of aboveAverage.
C19_LabelStrictlyAbove ==
    BenchmarkApplied =>
        LET v     == probe.overallScore.val
            label == probe.out.similarCasesComparison
        IN  /\ label \in {"Above average performance", "Below average performance"}
            /\ label = "Above average performance" <=> v > 7200
            /\ v = 7200 => label = "Below average performance"
            /\ label = "Above average performance" <=> probe.out.aboveAverage.val > 0

\* C19 witness: the overall score 7.2 has been labelled below average, with
\* aboveAverage 0
C19_Witness ==
    /\ BenchmarkApplied
    /\ probe.overallScore = Finite(7200)
    /\ probe.out.similarCasesComparison = "Below average performance"
    /\ probe.out.aboveAverage = Finite(0)

\* C20: in every scoreboard confidenceIssues holds exactly one advisory entry
\* when the classification confidence, a number, is strictly below the
\* minimum-confidence threshold in force (configured, or 0.6 with no config)
\* and is empty when the confidence is at or above it; potentialErrors,
\* inconsistencies and missingElements are empty.
C20_ConfidenceIssues ==
    \A c \in Callers :
        HasScoreboard(c) =>
            LET flags      == call[c].scoreboard.qualityFlags
                confidence == call[c].confidence.v
                threshold  == EffectiveConfig(call[c].config).minimumConfidenceThreshold.v
            IN  /\ flags.potentialErrors = << >>
                /\ flags.inconsistencies = << >>
                /\ flags.missingElements = << >>
                /\ (/\ call[c].confidence.t = "number"
                    /\ EffectiveConfig(call[c].config).minimumConfidenceThreshold.t
                          = "number") =>
                      /\ confidence < threshold => Len(flags.confidenceIssues) = 1
                      /\ confidence >= threshold => flags.confidenceIssues = << >>

\* C20 witness: a scoreboard built for confidence 0.5 under the configured
\* threshold 0.6 carries one confidence issue
C20_Witness ==
    /\ HasScoreboard("c1")
    /\ call["c1"].confidence = Number(50)
    /\ call["c1"].config = Config(Number(60))
    /\ Len(call["c1"].scoreboard.qualityFlags.confidenceIssues) = 1

\* C21: a minimum-confidence threshold the caller does not supply (no config
\* at all, or a config that leaves it out) is 0.6: in every scoreboard built
\* so, a numeric confidence below 0.6 gives one confidenceIssues entry and a
\* confidence of 0.6 or more gives none.
C21_UnsuppliedThresholdDefaults ==
    \A c \in Callers :
        (/\ HasScoreboard(c)
         /\ call[c].confidence.t = "number"
         /\ \/ ~call[c].config.given
            \/ call[c].config.minimumConfidenceThreshold = Undefined) =>
            LET issues == call[c].scoreboard.qualityFlags.confidenceIssues
            IN  /\ call[c].confidence.v < 60 => Len(issues) = 1
                /\ call[c].confidence.v >= 60 => issues = << >>

\* the document of a request has no content, or empty content
ContentMissingOrEmpty(arguments) ==
    \/ ~arguments.document.given
    \/ arguments.document.content = Undefined
    \/ arguments.document.content = String(0)

OutOfRange(x, min, max) == x.t = "number" /\ (x.v < min \/ x.v > max)

\* C22: the tool handler validates before any oracle call. A request naming
\* an unknown tool, a request whose document content is missing or empty, a
\* summarize_legal_document request whose maxLength is outside 50..2000 and a
\* classify_legal_document request whose confidenceThreshold is outside 0..1
\* are rejected with no oracle call issued; and whenever an oracle call has
\* been issued for a tool request, its document parsed, and so did the
\* options of the two tools that take options (analyze_legal_document_full
\* takes none and ignores any that are sent).
C22_ValidatedBeforeOracle ==
    \A c \in Callers :
        call[c].tool # NoRequest =>
            LET request   == call[c].tool
                arguments == request.arguments
                options   == DefaultedOptions(arguments.options)
            IN  /\ (\/ request.name \notin ToolNames
                    \/ ContentMissingOrEmpty(arguments)
                    \/ /\ request.name = "summarize_legal_document"
                       /\ OutOfRange(options.maxLength, 50, 2000)
                    \/ /\ request.name = "classify_legal_document"
                       /\ OutOfRange(options.confidenceThreshold, 0, 100)) =>
                      /\ call[c].pc = "rejected"
                      /\ call[c].issued = << >>
                /\ call[c].issued # << >> =>
                      /\ LegalDocumentSchema(arguments.document)
                      /\ request.name = "summarize_legal_document" =>
                            SummarizationOptionsSchema(options)
                      /\ request.name = "classify_legal_document" =>
                            ClassificationOptionsSchema(options)

\* C22 witness: a summarize_legal_document request with a sound document and
\* maxLength 49 has been rejected by the parse, no oracle call issued
C22_Witness ==
    /\ call["c1"].tool.name = "summarize_legal_document"
    /\ LegalDocumentSchema(call["c1"].tool.arguments.document)
    /\ call["c1"].tool.arguments.options.maxLength = Number(49)
    /\ call["c1"].pc = "rejected"
    /\ call["c1"].error = "ZodError"
    /\ call["c1"].issued = << >>

\* C22 as stated: for each of the three tools, a request whose options are
\* out of range is rejected with no oracle call issued
C22_EveryToolValidatesOptions ==
    \A c \in Callers :
        (/\ call[c].tool.name \in ToolNames
         /\ call[c].tool.arguments.given
         /\ LET options == call[c].tool.arguments.options
            IN  \/ /\ call[c].tool.name # "classify_legal_document"
                   /\ OutOfRange(options.maxLength, 50, 2000)
                \/ /\ call[c].tool.name # "summarize_legal_document"
                   /\ OutOfRange(options.confidenceThreshold, 0, 100)) =>
            /\ call[c].pc = "rejected"
            /\ call[c].issued = << >>

\* the 14 metrics of a scoreboard all carry the same finite score
UniformlyScored(scoreboard) ==
    LET metrics == AllMetrics(scoreboard)
    IN  /\ Len(metrics) = 14
        /\ IsFinite(metrics[1].score)
        /\ \A i \in 1..Len(metrics) : metrics[i].score = metrics[1].score

\* the tier counts put all 14 metrics in the one tier
AllCountedIn(aggregateMetrics, tier) ==
    /\ aggregateMetrics.totalMetrics = 14
    /\ aggregateMetrics.excellentCount = (IF tier = "excellent" THEN 14 ELSE 0)
    /\ aggregateMetrics.goodCount = (IF tier = "good" THEN 14 ELSE 0)
    /\ aggregateMetrics.satisfactoryCount = (IF tier = "satisfactory" THEN 14 ELSE 0)
    /\ aggregateMetrics.needsImprovementCount =
          (IF tier = "needs_improvement" THEN 14 ELSE 0)
    /\ aggregateMetrics.poorCount = (IF tier = "poor" THEN 14 ELSE 0)

\* C23: when all 14 metrics carry the same score s, overallScore is s rounded
\* to two decimals (s itself when s has no more than two), overallGrade is
\* the tier of that overallScore, and all 14 metrics are counted in the tier
\* of s.
C23_UniformScores ==
    \A c \in Callers :
        (HasScoreboard(c) /\ UniformlyScored(call[c].scoreboard)) =>
            LET scoreboard == call[c].scoreboard
                s          == AllMetrics(scoreboard)[1].score
                overall    == scoreboard.overallScore
            IN  /\ IsFinite(overall)
                /\ overall.val % 10 = 0
                /\ Abs(overall.val - s.val) <= 5
                /\ s.val % 10 = 0 => overall = s
                /\ scoreboard.overallGrade = getScoreLevel(overall)
                /\ AllCountedIn(scoreboard.aggregateMetrics, getScoreLevel(s))

\* C23 witness: all 14 criteria judged 9 give overallScore 9.0, excellent,
\* with excellentCount 14
C23_Witness ==
    /\ HasScoreboard("c1")
    /\ UniformlyScored(call["c1"].scoreboard)
    /\ AllMetrics(call["c1"].scoreboard)[1].score = Finite(9000)
    /\ call["c1"].scoreboard.overallScore = Finite(9000)
    /\ call["c1"].scoreboard.overallGrade = "excellent"
    /\ call["c1"].scoreboard.aggregateMetrics.excellentCount = 14

\* C23 as stated: overallScore is s exactly and overallGrade the tier of s
C23_UniformScoresExact ==
    \A c \in Callers :
        (HasScoreboard(c) /\ UniformlyScored(call[c].scoreboard)) =>
            LET scoreboard == call[c].scoreboard
                s          == AllMetrics(scoreboard)[1].score
            IN  /\ scoreboard.overallScore = s
                /\ scoreboard.overallGrade = getScoreLevel(s)
                /\ AllCountedIn(scoreboard.aggregateMetrics, getScoreLevel(s))

\* C24: the aggregate does not depend on the order of the metric list: a list
\* and any reordering of it give the same overall score.
C24_OrderInvariant ==
    (probe.op = "calculateOverallScorePermuted" /\ probe.applied) =>
        probe.out = probe.outPermuted

\* the sum of the scores of a list of finitely scored metrics
RECURSIVE ScoreSum(_)
ScoreSum(metrics) ==
    IF metrics = << >> THEN 0
    ELSE ScoreSum(Tail(metrics)) + Head(metrics).score.val

\* the metrics all carry the same weight, which is not zero, and finite scores
EquallyWeighted(metrics) ==
    /\ Len(metrics) >= 1
    /\ metrics[1].weight # 0
    /\ \A i \in 1..Len(metrics) :
          metrics[i].weight = metrics[1].weight /\ IsFinite(metrics[i].score)

\* C25: when all the weights are equal and not zero, the aggregate is the
\* unweighted arithmetic mean of the scores rounded to two decimals: a whole
\* number of hundredths within 0.005 of the mean.
C25_EqualWeightsRoundedMean ==
    (probe.op = "calculateOverallScore" /\ probe.applied) =>
        LET metrics == probe.summarizationScores \o probe.classificationScores
        IN  EquallyWeighted(metrics) =>
                /\ IsFinite(probe.out)
                /\ probe.out.val % 10 = 0
                /\ Abs(probe.out.val * Len(metrics) - ScoreSum(metrics))
                      <= 5 * Len(metrics)

\* C25 witness: three metrics of equal weight scored 0, 0 and 5 aggregate to
\* 1.67, their mean 1.666... rounded
C25_Witness ==
    /\ probe.op = "calculateOverallScore" /\ probe.applied
    /\ LET metrics == probe.summarizationScores \o probe.classificationScores
       IN  /\ EquallyWeighted(metrics)
           /\ Len(metrics) = 3
           /\ ScoreSum(metrics) = 5000
    /\ probe.out = Finite(1670)

\* C25 as stated: with equal weights the aggregate is exactly the mean
C25_EqualWeightsExactMean ==
    (probe.op = "calculateOverallScore" /\ probe.applied) =>
        LET metrics == probe.summarizationScores \o probe.classificationScores
        IN  EquallyWeighted(metrics) =>
                /\ IsFinite(probe.out)
                /\ probe.out.val * Len(metrics) = ScoreSum(metrics)

\* C29: in every scoreboard the strengths are the entries of the metrics at
\* excellent or good, as many as excellentCount + goodCount, the weaknesses
\* the entries of the metrics at needs_improvement or poor, as many as
\* needsImprovementCount + poorCount; no metric is entered in both lists, a
\* satisfactory metric in neither; and the recommendations are two more than
\* the weaknesses.
C29_InsightLists ==
    \A c \in Callers :
        HasScoreboard(c) =>
            LET scoreboard == call[c].scoreboard
                metrics    == AllMetrics(scoreboard)
                counts     == scoreboard.aggregateMetrics
                strong     == {i \in 1..Len(metrics) :
                                  metrics[i].level \in {"excellent", "good"}}
                weak       == {i \in 1..Len(metrics) :
                                  metrics[i].level \in {"needs_improvement", "poor"}}
                EntriesOf(I) == {InsightEntry(metrics[i]) : i \in I}
                Range(list)  == {list[i] : i \in 1..Len(list)}
            IN  /\ Len(scoreboard.strengths) = counts.excellentCount + counts.goodCount
                /\ Len(scoreboard.weaknesses) =
                      counts.needsImprovementCount + counts.poorCount
                /\ Len(scoreboard.strengths) = Cardinality(strong)
                /\ Len(scoreboard.weaknesses) = Cardinality(weak)
                /\ Range(scoreboard.strengths) = EntriesOf(strong)
                /\ Range(scoreboard.weaknesses) = EntriesOf(weak)
                /\ strong \cap weak = {}
                /\ Len(scoreboard.strengths) + Len(scoreboard.weaknesses)
                      + counts.satisfactoryCount = Len(metrics)
                /\ Len(scoreboard.recommendations) = Len(scoreboard.weaknesses) + 2

\* C29 witness: a scoreboard with metrics at good or better, satisfactory
\* ones, and one below: 8 strengths, 1 weakness, 3 recommendations
C29_Witness ==
    /\ HasScoreboard("c1")
    /\ call["c1"].scoreboard.aggregateMetrics.satisfactoryCount = 5
    /\ Len(call["c1"].scoreboard.strengths) = 8
    /\ Len(call["c1"].scoreboard.weaknesses) = 1
    /\ Len(call["c1"].scoreboard.recommendations) = 3

\* the tier of a stored score, by the thresholds 9.0, 7.5, 6.0 and 4.0
TierOfStored(score) ==
    IF ~IsFinite(score) THEN (IF score = PosInfinity THEN "excellent" ELSE "poor")
    ELSE IF score.val >= 9000 THEN "excellent"
    ELSE IF score.val >= 7500 THEN "good"
    ELSE IF score.val >= 6000 THEN "satisfactory"
    ELSE IF score.val >= 4000 THEN "needs_improvement"
    ELSE "poor"

\* C28: in every scoreboard overallGrade is the tier of the stored, rounded
\* overallScore, also when the unrounded weighted mean lies below a tier
\* threshold and rounds up to it.
C28_GradeOfStoredScore ==
    \A c \in Callers :
        HasScoreboard(c) =>
            call[c].scoreboard.overallGrade =
                TierOfStored(call[c].scoreboard.overallScore)

\* C28 witness: a weighted mean of 8.996, below the threshold 9.0, is stored
\* as 9.0 and graded excellent
C28_Witness ==
    /\ HasScoreboard("c1")
    /\ AllInRange(call["c1"].scoreboard)
    /\ LET metrics == AllMetrics(call["c1"].scoreboard)
       IN  ScoreWeightSum(metrics) = 8996 * WeightSum(metrics)
    /\ call["c1"].scoreboard.overallScore = Finite(9000)
    /\ call["c1"].scoreboard.overallGrade = "excellent"

\* insights have been computed for a scoreboard whose 14 scores are finite
InsightsApplied ==
    /\ probe.op = "generatePerformanceInsights" /\ probe.applied
    /\ AllInRange(probe.scoreboard)

\* C30: the unrounded weighted mean over all 14 metrics is the arithmetic
\* mean of the unrounded summarization and classification weighted scores;
\* scoreBreakdown reports each group score rounded to two decimals, and the
\* overall score it reports is within 0.01 of the mean of the two it reports.
C30_OverallIsMeanOfGroups ==
    InsightsApplied =>
        LET summarization  == probe.scoreboard.summarizationScores
            classification == probe.scoreboard.classificationScores
            S_all == ScoreWeightSum(AllMetrics(probe.scoreboard))
            W_all == WeightSum(AllMetrics(probe.scoreboard))
            S_s   == ScoreWeightSum(summarization)
            W_s   == WeightSum(summarization)
            S_c   == ScoreWeightSum(classification)
            W_c   == WeightSum(classification)
            breakdown == probe.out.scoreBreakdown
        IN  \* S_all / W_all = (S_s / W_s + S_c / W_c) / 2, the two groups
            \* weighing the same
            /\ W_s = W_c
            /\ W_all = 2 * W_s
            /\ S_all = S_s + S_c
            /\ IsFinite(breakdown.summarization)
            /\ IsFinite(breakdown.classification)
            /\ breakdown.summarization.val % 10 = 0
            /\ breakdown.classification.val % 10 = 0
            /\ Abs(breakdown.summarization.val * W_s - S_s) <= 5 * W_s
            /\ Abs(breakdown.classification.val * W_c - S_c) <= 5 * W_c
            /\ breakdown.overall = probe.scoreboard.overallScore
            /\ Abs(2 * breakdown.overall.val - breakdown.summarization.val
                      - breakdown.classification.val) <= 20

\* C30 witness: summarization criteria judged 6 but one of weight .05 judged
\* 4.5, classification criteria all judged 6: the group scores are 5.925 and
\* 6, reported as 5.93 (or 5.92) and 6, the overall mean is 5.9625
C30_Witness ==
    /\ InsightsApplied
    /\ ScoreWeightSum(probe.scoreboard.summarizationScores) = 592500
    /\ ScoreWeightSum(probe.scoreboard.classificationScores) = 600000
    /\ probe.out.scoreBreakdown.summarization \in {Finite(5920), Finite(5930)}
    /\ probe.out.scoreBreakdown.classification = Finite(6000)
    /\ probe.out.scoreBreakdown.overall = Finite(5960)

\* C30 as stated: the unrounded overall weighted mean is the arithmetic mean
\* of the two group scores scoreBreakdown reports
C30_OverallIsMeanOfReported ==
    InsightsApplied =>
        LET S_all == ScoreWeightSum(AllMetrics(probe.scoreboard))
            W_all == WeightSum(AllMetrics(probe.scoreboard))
            breakdown == probe.out.scoreBreakdown
        IN  2 * S_all =
              (breakdown.summarization.val + breakdown.classification.val) * W_all

\* C26: a runComprehensiveEvaluation call that is rejected leaves the history
\* as it was before the call.  No step of a request other than its successful
\* completion touches the history: not its start, not the arrival of any of
\* its oracle answers, not the failure of any of its oracle calls, the
\* recommendations call included; so between the call and its rejection the
\* history changes only by the completions of other requests, and no entry
\* of it belongs to the rejected request.
C26_RejectedLeavesHistory ==
    /\ [][\A c \in Callers :
            /\ (call'[c] # call[c] /\ call'[c].pc # "returned") =>
                  evaluationHistory' = evaluationHistory
            /\ (call[c].pc # "rejected" /\ call'[c].pc = "rejected") =>
                  /\ evaluationHistory' = evaluationHistory
                  /\ Len(evaluationHistory') = Len(evaluationHistory)
         ]_vars
    /\ [](\A c \in Callers :
            call[c].pc = "rejected" =>
                \A i \in 1..Len(evaluationHistory) :
                    evaluationHistory[i].documentId # call[c].request)

\* C26 witness: c1's request has been rejected by the failure of its final
\* recommendations call, and the history holds the one entry another request
\* had put there
C26_Witness ==
    /\ call["c1"].pc = "rejected"
    /\ call["c1"].error \in OracleErrors
    /\ Len(call["c1"].issued) = 5
    /\ call["c1"].issued[5] = "generateImprovementRecommendations"
    /\ Len(evaluationHistory) = 1
    /\ evaluationHistory[1].documentId # call["c1"].request

\* the entries of the history that are reports of the documents of c's batch
BatchEntries(c) ==
    LET OfBatch(report) ==
            /\ report.documentId >= call[c].first
            /\ report.documentId < call[c].first + call[c].documents
    IN  SelectSeq(evaluationHistory, OfBatch)

\* C27: batchEvaluation evaluates its documents one after another in input
\* order.  At every moment of a batch the reports it has are those of its
\* first documents, in order, and they are exactly the entries the history
\* has of the batch, in the same order; the document being evaluated is the
\* next one, so an evaluation starts only when the one before has completed;
\* the batch returns when it has a report for every document; and a batch
\* rejected at a document stays as it is, with no document after that one
\* evaluated and the reports of those before it in the history.
C27_BatchInOrder ==
    /\ [](\A c \in Callers :
            call[c].batching =>
                LET reports == call[c].individualReports
                IN  /\ \A i \in 1..Len(reports) :
                          reports[i].documentId = call[c].first + i - 1
                    /\ BatchEntries(c) = reports
                    /\ call[c].pc = "returned" <=> Len(reports) = call[c].documents
                    /\ call[c].pc # "returned" =>
                          /\ Len(reports) < call[c].documents
                          /\ call[c].request = call[c].first + Len(reports))
    /\ [][\A c \in Callers :
            (call[c].batching /\ call[c].pc = "rejected" /\ call'[c] # call[c]) =>
                /\ call'[c].first >= call[c].first + call[c].documents
                /\ call'[c].individualReports = << >>
         ]_vars

\* C27 witness: a batch of two documents has returned with its two reports
\* while a single evaluation completed between them: the history has three
\* entries, the middle one not of the batch
C27_Witness ==
    /\ call["c1"].batching
    /\ call["c1"].pc = "returned"
    /\ call["c1"].documents = 2
    /\ Len(call["c1"].individualReports) = 2
    /\ Len(evaluationHistory) = 3
    /\ evaluationHistory[2].documentId = call["c2"].request
    /\ call["c1"].aggregateAnalysis.totalDocuments = 2

=============================================================================
